---- MODULE Spec2Model ----
(***************************************************************************)
(* A model of the m-lab ETL pipeline core:                                 *)
(*   - row.Buffer, row.ActiveStats and row.Base       (src/row/row.go)     *)
(*   - storage.ETLSource.NextTest                     (src/unnamed/part_001)*)
(* Each component has its own specification (SpecBuffer, SpecBase,         *)
(* SpecSource); the variables of the other components stay at their        *)
(* initial values.                                                         *)
(***************************************************************************)
EXTENDS Integers, Sequences, FiniteSets, TLC

\* ------------------------------------------------------------------------
\* Bounds of the model
\* ------------------------------------------------------------------------
\* Largest Buffer capacity tried (capacities 0..MaxSize).
MaxSize == 2
\* Number of rows that are appended to the Buffer in one behaviour.
MaxRows == 3
\* Number of goroutines that call the Buffer concurrently.
NumGoroutines == 2
\* Largest number of entries of an archive.
MaxEntries == 2
\* Largest header size of an entry, counted in chunks of the body.
MaxEntrySize == 2
MaxCount == 2
MaxDup == 2
MaxNow == 4
MaxSleeps == 16
\* Largest number of days of a month, and of files of a day, in the bucket.
NumDays == 2
MaxFiles == 6
\* Largest number of objects of a switch file, and of samples of an object.
MaxObjects == 2
MaxSamples == 2

Goroutines == 1..NumGoroutines

VARIABLES
    \* row.Buffer
    bufSize,      \* buf.size
    bufRows,      \* buf.rows
    bufLock,      \* buf.lock: 0 when free, else the goroutine holding it
    gpc,          \* position of each goroutine in Append / Reset
    gop,          \* the Buffer method each goroutine is executing
    grow,         \* the row argument of the Append in progress
    glocal,       \* the value of buf.rows the goroutine has read
    gres,         \* the slice the call is about to return
    got,          \* per goroutine: all the rows returned to it so far
    handed,       \* all returned slices, concatenated in order of return
    appended,     \* all rows stored by Append, in order
    nrows,        \* number of rows created so far
    \* row.Base
    pbSize,       \* pb.buf.size
    pbRows,       \* pb.buf.rows
    stats,        \* pb.stats (the embedded Stats)
    pbPc,         \* position of the goroutine in Put / Flush (commit inlined)
    pbOp,         \* the method in progress, or the last one that returned
    pbBatch,      \* the local variable rows of Put / Flush / commit
    pbBatchNil,   \* whether that slice is nil
    pbDone,       \* done, as returned by pb.sink.Commit
    pbErr,        \* err, as returned by pb.sink.Commit
    pbCallErr,    \* err of the Commit made by the current call, "none" if none was made
    pbRet,        \* the value the last Put / Flush returned
    commits,      \* the batches passed to Sink.Commit, concatenated in call order
    puts,         \* the rows passed to Put, in order
    \* storage.ETLSource
    archive,      \* the entries of the tar file, in tar order; an entry's name is its index
    maxSize,      \* the argument of NextTest
    tarPos,       \* number of headers the tar reader has handed out
    bodyPos,      \* chunks of the current entry's body the tar reader has handed out
    ntPc,         \* position of the caller in NextTest
    trial,        \* trial
    delay,        \* delay, in milliseconds
    hdr,          \* h: the entry whose header was read, 0 for nil
    ntData,       \* data
    ntErr,        \* err
    sleeps,       \* the durations of the time.Sleep calls of the current retry loop
    hdrReads,     \* rr.Next() calls made by the current NextTest call
    bodyReads,    \* nextData calls made by the current NextTest call
    ntRet,        \* what the last NextTest call returned
    returned,     \* names of the entries NextTest has returned, in order
    \* storage.NewETLSource and storage.Closer
    uri,          \* the uri argument, as a sequence of characters
    client,       \* whether the client argument is non-nil
    opPc,         \* position in NewETLSource, then in Closer.Close
    closeCaller,  \* who called Closer.Close: "NewETLSource" or "user"
    rdrState,     \* the object reader: "none", "open" or "closed"
    zipState,     \* the gzip reader: "none", "open" or "closed"
    ctxState,     \* the request context: "none", "live" or "cancelled"
    zipper,       \* whether closer.zipper is non-nil
    opErr,        \* the error NewETLSource returned
    closeErr,     \* err of Closer.Close
    releases,     \* what was released so far, in order
    \* task.Task
    taskPc,       \* position in ProcessAllTests
    taskRet,      \* fn, data, err: what the last tt.NextTest() returned
    taskReads,    \* names of the entries NextTest returned with data and no error
    taskCalls,    \* the calls made to the parser and the inserter, in order
    tarBroken,    \* the error the tar reader returns from now on, or "nil"
    taskLogged,   \* whether the errors of NextTest logged so far are odd in number
    \* dedup.checkDetails
    cdSrc,        \* srcDetail
    cdDest,       \* destDetail
    cdRet,        \* the error returned, "none" before the call
    \* the warehouse
    now,          \* the clock
    wh,           \* the tables: rows per test id, LastModified
    \* dedup.SanityCheckAndCopy and dedup.WaitForJob
    cpSrc,        \* srcTable
    cpDestDataset, \* destDataset
    cpDestName,   \* destTableName
    cpDest,       \* destTable, once constructed
    cpPc,         \* position in SanityCheckAndCopy / WaitForJob
    cpRet,        \* the error SanityCheckAndCopy returned
    ctxDone,      \* the caller's ctx was cancelled
    wjCtx,        \* the context WaitForJob was given
    jobState,     \* the copy job
    backoff,      \* WaitForJob: backoff, in ms
    previous,     \* WaitForJob: previous, in ms
    polled,       \* what the last job.Status call of WaitForJob observed
    slept,        \* the first MaxSleeps sleeps of WaitForJob, in order
    \* dedup.CheckAndDedup
    options,      \* MinSrcAge, IgnoreDestAge, DryRun, CopyOnly
    srcInfo,      \* Name and LastModifiedTime of the source table
    destTable,    \* the destination partition
    ddPc,         \* position in CheckAndDedup
    ddRet,        \* the error CheckAndDedup returned
    dedupTable,   \* the intermediate partition
    destLastModified, \* checkDestOlder: destPartitionInfo.LastModified
    srcDetail,    \* CheckAndDedup: srcDetail
    destDetail,   \* CheckAndDedup: destDetail
    dedupDetail,  \* CheckAndDedup: dedupDetail
    dedups,       \* calls of Dedup_Alpha in this run
    wh0,          \* the tables when this run of CheckAndDedup started
    runs,         \* runs of CheckAndDedup started so far
    firstRet,     \* what the first run returned
    firstWh,      \* the tables when the first run had returned
    \* dedup.ProcessTablesMatching
    dsTables,     \* the TableInfo of the tables of the source dataset
    srcPattern,   \* the pattern of the source tables
    destBase,     \* the name of the destination table
    ptInfo,       \* ProcessTablesMatching: info
    ptI,          \* ProcessTablesMatching: i
    ptPc,         \* position in ProcessTablesMatching
    ptRet,        \* the error ProcessTablesMatching returned
    ptLog,        \* the calls of CheckAndDedup made, with their results
    \* etl.ValidateTestPath
    path,         \* the argument
    vtpRet,       \* what ValidateTestPath returned
    \* cmd/reproc
    errCount,     \* the errors counted by all goroutines
    monthPc,      \* position of month()
    days,         \* the number of postDay goroutines started
    dayPc,        \* position of each postDay goroutine
    dayFiles,     \* the objects each iterator of a day has yet to return
    crashed,      \* why the process ended in a panic, or "no"
    postedAt,     \* the largest errCount at which postOne was called, or -1
    \* parser.SwitchParser
    testName,     \* the name of the file
    archiveDate,  \* fileMetadata["date"]
    swPc,         \* position in ParseAndInsert
    decoded,      \* the number of objects decoded
    timestampToRow, \* ParseAndInsert: timestampToRow
    timestamps,   \* ParseAndInsert: timestamps
    swI,          \* ParseAndInsert: position in timestamps
    swRet,        \* what ParseAndInsert returned
    swPuts,       \* the rows handed to Base.Put, in order
    kept          \* the timestamps of the samples kept from objects with a
                  \* valid machine and site, in the order in which the file
                  \* has them first

bufVars == <<bufSize, bufRows, bufLock, gpc, gop, grow, glocal, gres, got,
             handed, appended, nrows>>

baseVars == <<pbSize, pbRows, stats, pbPc, pbOp, pbBatch, pbBatchNil, pbDone,
              pbErr, pbCallErr, pbRet, commits, puts>>

srcVars == <<archive, maxSize, tarPos, bodyPos, ntPc, trial, delay, hdr, ntData,
             ntErr, sleeps, hdrReads, bodyReads, ntRet, returned>>

openVars == <<uri, client, opPc, closeCaller, rdrState, zipState, ctxState,
              zipper, opErr, closeErr, releases>>

taskVars == <<taskPc, taskRet, taskReads, taskCalls, tarBroken, taskLogged>>

detailVars == <<cdSrc, cdDest, cdRet>>

whVars == <<now, wh>>

copyVars == <<cpSrc, cpDestDataset, cpDestName, cpDest, cpPc, cpRet, ctxDone,
              wjCtx, jobState, backoff, previous, polled, slept>>

dedupVars == <<options, srcInfo, destTable, ddPc, ddRet, dedupTable,
               destLastModified, srcDetail, destDetail, dedupDetail, dedups,
               wh0, runs, firstRet, firstWh>>

tablesVars == <<dsTables, srcPattern, destBase, ptInfo, ptI, ptPc, ptRet, ptLog>>

\* The variables of package dedup.
ddVars == <<detailVars, whVars, copyVars, dedupVars, tablesVars>>

pathVars == <<path, vtpRet>>

reprocVars == <<errCount, monthPc, days, dayPc, dayFiles, crashed, postedAt>>

switchVars == <<testName, archiveDate, swPc, decoded, timestampToRow, timestamps,
                swI, swRet, swPuts, kept>>

vars == <<bufVars, baseVars, srcVars, openVars, taskVars, ddVars, pathVars, reprocVars, switchVars>>

\* The variables of the other components.
notBufVars == <<baseVars, srcVars, openVars, taskVars, ddVars, pathVars, reprocVars, switchVars>>
notBaseVars == <<bufVars, srcVars, openVars, taskVars, ddVars, pathVars, reprocVars, switchVars>>
notSrcVars == <<bufVars, baseVars, openVars, taskVars, ddVars, pathVars, reprocVars, switchVars>>
notOpenVars == <<bufVars, baseVars, srcVars, taskVars, ddVars, pathVars, reprocVars, switchVars>>
\* A Task reads the tar reader itself: of the source it uses the archive
\* and the position of the tar reader only.
notTaskVars == <<bufVars, baseVars, openVars, ddVars, pathVars, reprocVars, switchVars, maxSize, ntPc, trial, delay, hdr,
                 ntData, ntErr, sleeps, hdrReads, bodyReads, ntRet, returned>>
notDdVars == <<bufVars, baseVars, srcVars, openVars, taskVars, pathVars, reprocVars, switchVars>>
notPathVars == <<bufVars, baseVars, srcVars, openVars, taskVars, ddVars, reprocVars, switchVars>>
notReprocVars == <<bufVars, baseVars, srcVars, openVars, taskVars, ddVars, pathVars, switchVars>>
notSwitchVars == <<bufVars, baseVars, srcVars, openVars, taskVars, ddVars, pathVars, reprocVars>>

\* ------------------------------------------------------------------------
\* row.Buffer (src/row/row.go)
\* ------------------------------------------------------------------------

\* NewBuffer(size): an empty slice with the given capacity.
NewBuffer(size) == [size |-> size, rows |-> <<>>]

BufferAppendDropsRow(rows, size, row) ==
    IF Len(rows) < size
    THEN [rows |-> Append(rows, row), ret |-> <<>>, isNil |-> TRUE]
    ELSE [rows |-> <<>>, ret |-> rows, isNil |-> FALSE]

\* The body of Buffer.Append, given the buf.rows that was read: the new
\* buf.rows, the returned slice, and whether the returned slice is nil.
BufferAppend(rows, size, row) ==
    IF Len(rows) < size
    THEN [rows |-> Append(rows, row), ret |-> <<>>, isNil |-> TRUE]
    ELSE [rows |-> <<row>>, ret |-> rows, isNil |-> FALSE]

BufferResetKeepsRows(rows) == [rows |-> rows, ret |-> rows, isNil |-> FALSE]

\* The body of Buffer.Reset: the returned slice is the old buf.rows (never
\* nil, NewBuffer allocates it), the new buf.rows is empty.
BufferReset(rows) == [rows |-> <<>>, ret |-> rows, isNil |-> FALSE]

\* ------------------------------------------------------------------------
\* row.ActiveStats (src/row/row.go)
\* ------------------------------------------------------------------------

\* The error values of the model: "nil" is Go's nil error.
SinkErrors == {"sinkErr1", "sinkErr2"}

\* The zero value of Stats.
ZeroStats == [Buffered |-> 0, Pending |-> 0, Committed |-> 0, Failed |-> 0]

\* Stats.Total
Total(s) == s.Buffered + s.Pending + s.Committed + s.Failed

\* ActiveStats.MoveToPending(n)
MoveToPending(s, n) ==
    [s EXCEPT !.Buffered = s.Buffered - n, !.Pending = s.Pending + n]

\* ActiveStats.Inc()
Inc(s) == [s EXCEPT !.Buffered = s.Buffered + 1]

DoneForgetsFailed(s, n, err) ==
    IF err # "nil"
    THEN [s EXCEPT !.Pending = s.Pending - n]
    ELSE [s EXCEPT !.Pending = s.Pending - n, !.Committed = s.Committed + n]

\* ActiveStats.Done(n, err)
Done(s, n, err) ==
    IF err # "nil"
    THEN [s EXCEPT !.Pending = s.Pending - n, !.Failed = s.Failed + n]
    ELSE [s EXCEPT !.Pending = s.Pending - n, !.Committed = s.Committed + n]

\* ------------------------------------------------------------------------
\* row.Base (src/row/row.go)
\* ------------------------------------------------------------------------

\* ErrCommitRow{err}, and its Unwrap.
ErrCommitRow(err) == [kind |-> "ErrCommitRow", Err |-> err]
Unwrap(e) == e.Err

\* A nil error returned by Put / Flush.
NilError == [kind |-> "nil", Err |-> "nil"]

FailedRowsAll(rows, done) == Len(rows)

\* The count commit passes to the second Done: len(rows)-done.
FailedRows(rows, done) == Len(rows) - done

CommitReturnsNil(err) == NilError

\* The value commit returns, given the err of Sink.Commit.
CommitReturn(err) == IF err # "nil" THEN ErrCommitRow(err) ELSE NilError

\* Put: rows := pb.buf.Append(row), with a fresh row.
PutAppend ==
    /\ pbPc = "idle"
    /\ Len(puts) < MaxRows
    /\ LET row == Len(puts) + 1
           r == BufferAppend(pbRows, pbSize, row)
       IN /\ pbRows' = r.rows
          /\ pbBatch' = r.ret
          /\ pbBatchNil' = r.isNil
          /\ puts' = Append(puts, row)
    /\ pbOp' = "Put"
    /\ pbCallErr' = "none"
    /\ pbPc' = "inc"
    /\ UNCHANGED <<pbSize, stats, pbDone, pbErr, pbRet, commits>>

\* Put: pb.stats.Inc()
PutInc ==
    /\ pbPc = "inc"
    /\ stats' = Inc(stats)
    /\ pbPc' = "check"
    /\ UNCHANGED <<pbSize, pbRows, pbOp, pbBatch, pbBatchNil, pbDone, pbErr,
                   pbCallErr, pbRet, commits, puts>>

\* Put: rows == nil, nothing to commit, return nil.
PutReturnNil ==
    /\ pbPc = "check"
    /\ pbBatchNil
    /\ pbRet' = NilError
    /\ pbPc' = "idle"
    /\ UNCHANGED <<pbSize, pbRows, stats, pbOp, pbBatch, pbBatchNil, pbDone,
                   pbErr, pbCallErr, commits, puts>>

\* Put: rows != nil, go on to MoveToPending and commit.
PutHasBatch ==
    /\ pbPc = "check"
    /\ ~pbBatchNil
    /\ pbPc' = "move"
    /\ UNCHANGED <<pbSize, pbRows, stats, pbOp, pbBatch, pbBatchNil, pbDone,
                   pbErr, pbCallErr, pbRet, commits, puts>>

\* Flush: rows := pb.buf.Reset()
FlushReset ==
    /\ pbPc = "idle"
    /\ LET r == BufferReset(pbRows)
       IN /\ pbRows' = r.rows
          /\ pbBatch' = r.ret
          /\ pbBatchNil' = r.isNil
    /\ pbOp' = "Flush"
    /\ pbCallErr' = "none"
    /\ pbPc' = "move"
    /\ UNCHANGED <<pbSize, stats, pbDone, pbErr, pbRet, commits, puts>>

\* Put / Flush: pb.stats.MoveToPending(len(rows))
MoveRows ==
    /\ pbPc = "move"
    /\ stats' = MoveToPending(stats, Len(pbBatch))
    /\ pbPc' = "commit"
    /\ UNCHANGED <<pbSize, pbRows, pbOp, pbBatch, pbBatchNil, pbDone, pbErr,
                   pbCallErr, pbRet, commits, puts>>

\* commit: done, err := pb.sink.Commit(rows, pb.label). The sink reports any
\* count between 0 and len(rows), with or without an error.
SinkCommit ==
    /\ pbPc = "commit"
    /\ \E done \in 0..Len(pbBatch), err \in SinkErrors \cup {"nil"} :
          /\ pbDone' = done
          /\ pbErr' = err
          /\ pbCallErr' = err
    /\ commits' = commits \o pbBatch
    /\ pbPc' = "done"
    /\ UNCHANGED <<pbSize, pbRows, stats, pbOp, pbBatch, pbBatchNil, pbRet, puts>>

\* commit: if done > 0 { pb.stats.Done(done, nil) }
CommitDone ==
    /\ pbPc = "done"
    /\ stats' = IF pbDone > 0 THEN Done(stats, pbDone, "nil") ELSE stats
    /\ pbPc' = "failed"
    /\ UNCHANGED <<pbSize, pbRows, pbOp, pbBatch, pbBatchNil, pbDone, pbErr,
                   pbCallErr, pbRet, commits, puts>>

\* commit: if err != nil { pb.stats.Done(len(rows)-done, err); return
\* ErrCommitRow{err} }; return err.  Put and Flush return what commit returns.
CommitFailed ==
    /\ pbPc = "failed"
    /\ stats' = IF pbErr # "nil"
                THEN Done(stats, FailedRows(pbBatch, pbDone), pbErr)
                ELSE stats
    /\ pbRet' = CommitReturn(pbErr)
    /\ pbPc' = "idle"
    /\ UNCHANGED <<pbSize, pbRows, pbOp, pbBatch, pbBatchNil, pbDone, pbErr,
                   pbCallErr, commits, puts>>

\* ------------------------------------------------------------------------
\* storage.ETLSource (src/unnamed/part_001)
\* ------------------------------------------------------------------------

\* The retry loops of NextTest give up when trial >= 10.
MaxTrials == 10

\* baseTimeout of NewETLSource, in milliseconds.
RetryBaseTime == 16

\* The errors a read of the underlying storage may fail with.
StorageErrors == {"unexpected EOF", "stream error"}

\* A tar header: size, type flag, and whether the name ends in "gz".
Entries == [size : 0..MaxEntrySize, typeflag : {"reg", "dir"}, gz : BOOLEAN]

Archives == UNION {[1..n -> Entries] : n \in 0..MaxEntries}

\* A nil []byte, and a non-nil one.
NilData == [isNil |-> TRUE, bytes |-> <<>>]
Bytes(b) == [isNil |-> FALSE, bytes |-> b]

\* The body of entry i as stored in the tar file, chunk by chunk.
Body(i) == [k \in 1..archive[i].size |-> <<"stored", i, k>>]

\* What a gzip reader yields for a complete gzip stream.
Gunzip(b) == [k \in 1..Len(b) |-> <<"plain", b[k][2], b[k][3]>>]

\* TarReader.Next(): the next header (the rest of the current body is
\* skipped), io.EOF after the last entry, or a storage error, which leaves
\* the reader where it was.
TarNext(pos) ==
    {[h |-> 0, err |-> e, pos |-> pos] : e \in StorageErrors}
    \cup (IF pos < Len(archive)
          THEN {[h |-> pos + 1, err |-> "nil", pos |-> pos + 1]}
          ELSE {[h |-> 0, err |-> "EOF", pos |-> pos]})

nextHeaderEOFOnError(out) ==
    IF out.err # "nil"
    THEN [h |-> 0, retry |-> FALSE, err |-> "EOF"]
    ELSE [h |-> out.h, retry |-> TRUE, err |-> out.err]

\* ETLSource.nextHeader, given what rr.Next() returned: (h, retry, err).
nextHeader(out) ==
    IF out.err = "EOF"
    THEN [h |-> 0, retry |-> FALSE, err |-> "EOF"]
    ELSE [h |-> out.h, retry |-> TRUE, err |-> out.err]

\* ioutil.ReadAll(rr) with the tar reader at chunk p of entry i: the rest of
\* the body, or a storage error after some more chunks were consumed.
ReadAll(i, p) ==
    LET n == archive[i].size
    IN {[data |-> Bytes(SubSeq(Body(i), p + 1, n)), err |-> "nil", pos |-> n]}
       \cup {[data |-> NilData, err |-> e, pos |-> q] :
                e \in StorageErrors, q \in p..n}

\* gzip.NewReader(rr) followed by ioutil.ReadAll(zipReader), with the tar
\* reader at chunk p of entry i. NewReader yields io.EOF when nothing is
\* left, and an error when the stream does not start with a gzip header.
\* phase tells which of the two calls returned.
GzipReadAll(i, p) ==
    LET n == archive[i].size
    IN {[phase |-> "open zip", data |-> NilData, err |-> e, pos |-> q] :
            e \in StorageErrors, q \in p..n}
       \cup (IF p = n
             THEN {[phase |-> "open zip", data |-> NilData, err |-> "EOF", pos |-> n]}
             ELSE IF p > 0
             THEN {[phase |-> "open zip", data |-> NilData,
                    err |-> "gzip: invalid header", pos |-> q] : q \in p + 1..n}
             ELSE {[phase |-> "read zip", data |-> Bytes(Gunzip(Body(i))),
                    err |-> "nil", pos |-> n]}
                  \cup {[phase |-> "read zip", data |-> NilData, err |-> e, pos |-> q] :
                           e \in StorageErrors, q \in 1..n})

\* ETLSource.nextData(h, trial) with the tar reader at chunk p of entry i:
\* the possible (data, retry, err), and where the tar reader is afterwards.
nextData(i, p) ==
    IF archive[i].gz
    THEN {[data |-> IF o.err = "nil" THEN o.data ELSE NilData,
           retry |-> o.err # "nil" /\ ~(o.phase = "open zip" /\ o.err = "EOF"),
           err |-> o.err, pos |-> o.pos] : o \in GzipReadAll(i, p)}
    ELSE {[data |-> IF o.err = "nil" THEN o.data ELSE NilData,
           retry |-> o.err # "nil",
           err |-> o.err, pos |-> o.pos] : o \in ReadAll(i, p)}

IsOversizeOffByOne(size, max) == size > max + 1

\* NextTest: h.Size > maxSize
IsOversize(size, max) == size > max

IsRegularAlways(typeflag) == TRUE

\* NextTest: h.Typeflag == tar.TypeReg (the entry is read only then).
IsRegular(typeflag) == typeflag = "reg"

GiveUpOneLate(retry, t) == ~retry \/ t > MaxTrials

\* NextTest, both retry loops: !retry || trial >= 10
GiveUp(retry, t) == ~retry \/ t >= MaxTrials

\* A return value of NextTest; the name 0 is the empty string.
Return(name, d, e) == [name |-> name, data |-> d, err |-> e]

\* NextTest has not returned yet.
NoReturn == Return(0, NilData, "nil")

\* NextTest(maxSize) is called: trial := 0; delay := rr.RetryBaseTime.
CallNextTest ==
    /\ ntPc = "idle"
    /\ ntPc' = "header"
    /\ trial' = 0
    /\ delay' = RetryBaseTime
    /\ hdr' = 0
    /\ ntData' = NilData
    /\ ntErr' = "nil"
    /\ sleeps' = <<>>
    /\ hdrReads' = 0
    /\ bodyReads' = 0
    /\ ntRet' = NoReturn
    /\ UNCHANGED <<archive, maxSize, tarPos, bodyPos, returned>>

\* One iteration of the header loop of NextTest.
HeaderTrial ==
    /\ ntPc = "header"
    /\ \E out \in TarNext(tarPos) :
          LET r == nextHeader(out)
              t == trial + 1
          IN /\ trial' = t
             /\ hdrReads' = hdrReads + 1
             /\ tarPos' = out.pos
             /\ bodyPos' = IF out.err = "nil" THEN 0 ELSE bodyPos
             /\ hdr' = r.h
             /\ ntErr' = r.err
             /\ IF r.err = "nil"
                THEN /\ ntPc' = "check"
                     /\ UNCHANGED <<delay, sleeps, ntRet>>
                ELSE IF GiveUp(r.retry, t)
                THEN /\ ntPc' = "idle"
                     /\ ntRet' = Return(0, NilData, r.err)
                     /\ UNCHANGED <<delay, sleeps>>
                ELSE /\ delay' = delay * 2
                     /\ sleeps' = Append(sleeps, delay * 2)
                     /\ UNCHANGED <<ntPc, ntRet>>
    /\ UNCHANGED <<archive, maxSize, ntData, bodyReads, returned>>

\* NextTest after the header loop: the oversize check, then the type check,
\* then trial = 0; delay = rr.RetryBaseTime for the body loop.
CheckHeader ==
    /\ ntPc = "check"
    /\ IF IsOversize(archive[hdr].size, maxSize)
       THEN /\ ntPc' = "idle"
            /\ ntRet' = Return(hdr, ntData, "Oversize file")
            /\ returned' = Append(returned, hdr)
            /\ UNCHANGED <<trial, delay, sleeps>>
       ELSE IF ~IsRegular(archive[hdr].typeflag)
       THEN /\ ntPc' = "idle"
            /\ ntRet' = Return(hdr, ntData, "nil")
            /\ returned' = Append(returned, hdr)
            /\ UNCHANGED <<trial, delay, sleeps>>
       ELSE /\ ntPc' = "body"
            /\ trial' = 0
            /\ delay' = RetryBaseTime
            /\ sleeps' = <<>>
            /\ UNCHANGED <<ntRet, returned>>
    /\ UNCHANGED <<archive, maxSize, tarPos, bodyPos, hdr, ntData, ntErr, hdrReads,
                   bodyReads>>

\* One iteration of the body loop of NextTest; both breaks lead to
\* return h.Name, data, nil.
DataTrial ==
    /\ ntPc = "body"
    /\ \E out \in nextData(hdr, bodyPos) :
          LET t == trial + 1
          IN /\ trial' = t
             /\ bodyReads' = bodyReads + 1
             /\ bodyPos' = out.pos
             /\ ntData' = out.data
             /\ ntErr' = out.err
             /\ IF out.err = "nil" \/ GiveUp(out.retry, t)
                THEN /\ ntPc' = "idle"
                     /\ ntRet' = Return(hdr, out.data, "nil")
                     /\ returned' = Append(returned, hdr)
                     /\ UNCHANGED <<delay, sleeps>>
                ELSE /\ delay' = delay * 2
                     /\ sleeps' = Append(sleeps, delay * 2)
                     /\ UNCHANGED <<ntPc, ntRet, returned>>
    /\ UNCHANGED <<archive, maxSize, tarPos, hdr, hdrReads>>

\* ------------------------------------------------------------------------
\* storage.NewETLSource and storage.Closer (src/unnamed/part_001)
\* ------------------------------------------------------------------------

\* strings.HasPrefix, strings.HasSuffix and strings.ToLower on sequences of
\* characters.
HasPrefix(str, p) == Len(str) >= Len(p) /\ SubSeq(str, 1, Len(p)) = p
HasSuffix(str, p) ==
    Len(str) >= Len(p) /\ SubSeq(str, Len(str) - Len(p) + 1, Len(str)) = p
Lower(c) ==
    CASE c = "T" -> "t" [] c = "G" -> "g" [] c = "Z" -> "z"
      [] c = "A" -> "a" [] c = "R" -> "r" [] OTHER -> c
ToLower(str) == [i \in 1..Len(str) |-> Lower(str[i])]

\* strings.SplitN(str, "/", 4): cut at the first three slashes; fewer parts
\* when there are fewer slashes.
Slashes(str) == {i \in 1..Len(str) : str[i] = "/"}
NthSlash(str, k) ==
    CHOOSE i \in Slashes(str) : Cardinality({j \in Slashes(str) : j < i}) = k - 1
SplitN4(str) ==
    IF Cardinality(Slashes(str)) < 3
    THEN [i \in 1..Cardinality(Slashes(str)) + 1 |-> <<>>]
    ELSE <<SubSeq(str, 1, NthSlash(str, 1) - 1),
           SubSeq(str, NthSlash(str, 1) + 1, NthSlash(str, 2) - 1),
           SubSeq(str, NthSlash(str, 2) + 1, NthSlash(str, 3) - 1),
           SubSeq(str, NthSlash(str, 3) + 1, Len(str))>>

\* The uris NewETLSource is called with.
URIs ==
    {<<"g", "s", ":", "/", "/", "b", "/", "f", ".", "t", "a", "r">>,
     <<"g", "s", ":", "/", "/", "b", "/", "f", ".", "t", "g", "z">>,
     <<"g", "s", ":", "/", "/", "b", "/", "f", ".", "t", "a", "r", ".", "g", "z">>,
     <<"g", "s", ":", "/", "/", "b", "/", "d", "/", "f", ".", "t", "g", "z">>,
     <<"g", "s", ":", "/", "/", "/", "f", ".", "t", "a", "r">>,
     <<"g", "s", ":", "/", "/", "b", "/", "f", ".", "T", "G", "Z">>,
     <<"g", "s", ":", "/", "/", "b", "/", "f", ".", "g", "z">>,
     <<"g", "s", ":", "/", "/", "b", "/", "f", ".", "t", "x", "t">>,
     <<"g", "s", ":", "/", "/", "b", "/">>,
     <<"g", "s", ":", "/", "/", "b">>,
     <<"h", "t", "t", "p", ":", "/", "/", "b", "/", "f", ".", "t", "a", "r">>,
     <<"/", "b", "/", "f", ".", "t", "a", "r">>,
     <<"g", "s", ":", "/", "/", "b", "b", "/", "f", ".", "t", "a", "r">>,
     <<"g", "s", ":", "/", "/", "b", "/", "f", ".", "t", "a", "r", "/">>,
     <<"g", "s", ":", "/", "/", "b", "/", "t", "a", "r">>,
     <<>>}

GsPrefix == <<"g", "s", ":", "/", "/">>
TarSuffixes == {<<".", "t", "g", "z">>, <<".", "t", "a", "r">>,
                <<".", "t", "a", "r", ".", "g", "z">>}

AcceptsSuffixAnyCase(fn) == \E x \in TarSuffixes : HasSuffix(ToLower(fn), x)

\* NewETLSource: fn ends in .tgz, .tar or .tar.gz.
AcceptsSuffix(fn) == \E x \in TarSuffixes : HasSuffix(fn, x)

\* NewETLSource: strings.HasSuffix(strings.ToLower(fn), "gz")
IsGzip(fn) == HasSuffix(ToLower(fn), <<"g", "z">>)

\* The errors Close() of a reader may return.
CloseErrors == {"nil", "closeErr"}

NewETLSourceFails(e) ==
    /\ opPc' = "failed"
    /\ opErr' = e

\* NewETLSource up to the call of getReader: the checks of client and uri.
ValidateURI ==
    /\ opPc = "start"
    /\ IF ~client
       THEN NewETLSourceFails("client should be non-null")
       ELSE IF ~HasPrefix(uri, GsPrefix)
       THEN NewETLSourceFails("invalid file path")
       ELSE IF Len(SplitN4(uri)) # 4
       THEN NewETLSourceFails("invalid file path")
       ELSE IF ~AcceptsSuffix(SplitN4(uri)[4])
       THEN NewETLSourceFails("not tar or tgz")
       ELSE opPc' = "getReader" /\ UNCHANGED opErr
    /\ UNCHANGED <<uri, client, closeCaller, rdrState, zipState, ctxState,
                   zipper, closeErr, releases>>

\* getReader: context.WithTimeout, then obj.NewReader(ctx), which may fail;
\* on error NewETLSource calls cancel() and returns the error; otherwise
\* closer := &Closer{nil, rdr, cancel}.
GetReader ==
    /\ opPc = "getReader"
    /\ \E e \in {"nil", "openErr"} :
          IF e # "nil"
          THEN /\ ctxState' = "cancelled"
               /\ releases' = Append(releases, "cancel")
               /\ NewETLSourceFails(e)
               /\ UNCHANGED rdrState
          ELSE /\ ctxState' = "live"
               /\ rdrState' = "open"
               /\ opPc' = IF IsGzip(SplitN4(uri)[4]) THEN "gzip" ELSE "returned"
               /\ UNCHANGED <<opErr, releases>>
    /\ UNCHANGED <<uri, client, closeCaller, zipState, zipper, closeErr>>

\* gzip.NewReader(rdr): on error closer.Close() and return the error,
\* otherwise closer.zipper = gzRdr and the source is returned.
GzipNewReader ==
    /\ opPc = "gzip"
    /\ \E e \in {"nil", "gzip: invalid header"} :
          IF e # "nil"
          THEN /\ opErr' = e
               /\ closeCaller' = "NewETLSource"
               /\ opPc' = IF zipper THEN "closeZipper" ELSE "closeRdr"
               /\ UNCHANGED <<zipper, zipState>>
          ELSE /\ zipper' = TRUE
               /\ zipState' = "open"
               /\ opPc' = "returned"
               /\ UNCHANGED <<opErr, closeCaller>>
    /\ UNCHANGED <<uri, client, rdrState, ctxState, closeErr, releases>>

\* The owner of the returned source calls Close(), which is Closer.Close.
CallClose ==
    /\ opPc = "returned"
    /\ closeCaller' = "user"
    /\ opPc' = IF zipper THEN "closeZipper" ELSE "closeRdr"
    /\ UNCHANGED <<uri, client, rdrState, zipState, ctxState, zipper, opErr,
                   closeErr, releases>>

AfterZipperCloseStopsOnError(e) == IF e # "nil" THEN "cancel" ELSE "closeRdr"

\* Closer.Close after err = t.zipper.Close(): t.rdr.Close() comes next,
\* whatever err is.
AfterZipperClose(e) == "closeRdr"

\* Closer.Close: err = t.zipper.Close()
CloseZipper ==
    /\ opPc = "closeZipper"
    /\ \E e \in CloseErrors :
          /\ closeErr' = e
          /\ opPc' = AfterZipperClose(e)
    /\ zipState' = "closed"
    /\ releases' = Append(releases, "zipper")
    /\ UNCHANGED <<uri, client, closeCaller, rdrState, ctxState, zipper, opErr>>

\* Closer.Close: t.rdr.Close(), its error ignored when there is a zipper,
\* and err = t.rdr.Close() when there is none.
CloseRdr ==
    /\ opPc = "closeRdr"
    /\ \E e \in CloseErrors : closeErr' = IF zipper THEN closeErr ELSE e
    /\ rdrState' = "closed"
    /\ releases' = Append(releases, "rdr")
    /\ opPc' = "cancel"
    /\ UNCHANGED <<uri, client, closeCaller, zipState, ctxState, zipper, opErr>>

\* Closer.Close: the deferred t.cancel(), and Close returns err. When
\* NewETLSource made the call it now returns its error.
CloseCancel ==
    /\ opPc = "cancel"
    /\ ctxState' = "cancelled"
    /\ releases' = Append(releases, "cancel")
    /\ opPc' = IF closeCaller = "NewETLSource" THEN "failed" ELSE "closed"
    /\ UNCHANGED <<uri, client, closeCaller, rdrState, zipState, zipper, opErr,
                   closeErr>>

\* ------------------------------------------------------------------------
\* task.Task (src/unnamed/part_001)
\* ------------------------------------------------------------------------

\* Task.NextTest with the tar reader at entry pos: the possible (fn, data,
\* err), and where the tar reader is afterwards. An entry's gz flag stands for
\* a name ending in ".gz".
TaskNextTest(pos) ==
    UNION {
        IF out.err # "nil"
        THEN {[ret |-> Return(0, NilData, out.err), pos |-> out.pos, body |-> 0]}
        ELSE IF archive[out.h].typeflag # "reg"
        THEN {[ret |-> Return(out.h, NilData, "nil"), pos |-> out.pos, body |-> 0]}
        ELSE {[ret |-> Return(out.h, IF o.err # "nil" THEN NilData ELSE o.data, o.err),
               pos |-> out.pos, body |-> o.pos] :
                 o \in IF archive[out.h].gz
                       THEN {[data |-> g.data, err |-> g.err, pos |-> g.pos] :
                                g \in GzipReadAll(out.h, 0)}
                       ELSE ReadAll(out.h, 0)}
        : out \in TarNext(pos)}

\* The errors of Parser.HandleTest and of Inserter.InsertRows.
ParseErrors == {"nil", "parseErr"}
InsertErrors == {"nil", "insertErr"}

\* A call of the parser or the inserter for the entry name, and its error.
Call(op, name, e) == [op |-> op, name |-> name, err |-> e]

\* ProcessAllTests: where the loop goes with what NextTest returned: the
\* loop ends when err == io.EOF, any other error is logged and the loop
\* continues, as it does when data == nil.
AfterNextTest(ret) ==
    IF ret.err = "EOF" THEN "done"
    ELSE IF ret.err # "nil" THEN "next"
    ELSE IF ret.data.isNil THEN "next"
    ELSE "handle"

AfterHandleTestStopsOnError(e) == IF e # "nil" THEN "done" ELSE "insert"

\* ProcessAllTests: an error of HandleTest is logged and the loop continues.
AfterHandleTest(e) == IF e # "nil" THEN "next" ELSE "insert"

\* What Task.NextTest can return with the tar reader at entry pos: a reader
\* that has broken down returns its error on every call.
TaskNextTestOf(pos, broken) ==
    IF broken # "nil"
    THEN {[ret |-> Return(0, NilData, broken), pos |-> pos, body |-> 0]}
    ELSE TaskNextTest(pos)

\* ProcessAllTests: fn, data, err := tt.NextTest(), the loop condition and
\* the checks of err and data. After an error of Next() the tar reader
\* either recovers or returns that error from then on.
LoopNextTest ==
    /\ taskPc = "next"
    /\ \E r \in TaskNextTestOf(tarPos, tarBroken) :
          /\ tarBroken' \in IF r.ret.name = 0 /\ r.ret.err \in StorageErrors
                            THEN {tarBroken, r.ret.err}
                            ELSE {tarBroken}
          /\ taskLogged' = IF r.ret.err \notin {"nil", "EOF"} THEN ~taskLogged ELSE taskLogged
          /\ taskRet' = r.ret
          /\ tarPos' = r.pos
          /\ bodyPos' = r.body
          /\ taskPc' = AfterNextTest(r.ret)
          /\ taskReads' = IF r.ret.err = "nil" /\ ~r.ret.data.isNil
                          THEN Append(taskReads, r.ret.name)
                          ELSE taskReads
    /\ UNCHANGED <<archive, taskCalls>>

\* ProcessAllTests: test, err := tt.Parser.HandleTest(fn, tt.table, data)
HandleTest ==
    /\ taskPc = "handle"
    /\ \E e \in ParseErrors :
          /\ taskCalls' = Append(taskCalls, Call("HandleTest", taskRet.name, e))
          /\ taskPc' = AfterHandleTest(e)
    /\ UNCHANGED <<archive, tarPos, bodyPos, taskRet, taskReads, tarBroken, taskLogged>>

\* ProcessAllTests: err = tt.InsertRows(test, 5*time.Second); an error is
\* logged, then the next iteration.
InsertRows ==
    /\ taskPc = "insert"
    /\ \E e \in InsertErrors :
          taskCalls' = Append(taskCalls, Call("InsertRows", taskRet.name, e))
    /\ taskPc' = "next"
    /\ UNCHANGED <<archive, tarPos, bodyPos, taskRet, taskReads, tarBroken, taskLogged>>

\* ------------------------------------------------------------------------
\* float32 arithmetic, as used by dedup.checkDetails
\* ------------------------------------------------------------------------

\* The bits of a float32 mantissa, the leading one included.
F32Bits == 24

Pow2(k) == 2^k

\* The position of the highest bit of n > 0.
RECURSIVE Log2(_)
Log2(n) == IF n < 2 THEN 0 ELSE 1 + Log2(n \div 2)

\* A float32 is m * 2^e with a mantissa of F32Bits bits: m = 0, or
\* 2^(F32Bits-1) <= m < 2^F32Bits.
F32(m, e) == [m |-> m, e |-> e]

\* q + r/(2*half), rounded to the nearest integer, ties to even.
RoundEven(q, r, half) ==
    IF r > half \/ (r = half /\ q % 2 = 1) THEN q + 1 ELSE q

\* A rounded mantissa that reached 2^F32Bits is renormalised.
Normal(m, e) ==
    IF m = Pow2(F32Bits) THEN F32(Pow2(F32Bits - 1), e + 1) ELSE F32(m, e)

\* float32(n) for an int n >= 0.
Float32(n) ==
    IF n = 0 THEN F32(0, 0)
    ELSE LET b == Log2(n)
         IN  IF b < F32Bits
             THEN F32(n * Pow2(F32Bits - 1 - b), b - (F32Bits - 1))
             ELSE LET s == b - (F32Bits - 1)
                  IN  Normal(RoundEven(n \div Pow2(s), n % Pow2(s), Pow2(s - 1)), s)

\* The float32 constant for n/100, 50 <= n < 100.
Percent(n) == Normal(RoundEven((n * Pow2(F32Bits)) \div 100, (n * Pow2(F32Bits)) % 100, 50),
                     -F32Bits)

\* a * b in float32: the exact product of the mantissas, computed in halves
\* of F32Bits/2 bits, is rounded to F32Bits bits.
Mul(a, b) ==
    IF a.m = 0 \/ b.m = 0 THEN F32(0, 0)
    ELSE LET h == Pow2(F32Bits \div 2)
             ah == a.m \div h
             al == a.m % h
             bh == b.m \div h
             bl == b.m % h
             mid == ah * bl + al * bh
             low == (mid % h) * h + al * bl
             lo == low % Pow2(F32Bits)
             hi == ah * bh + mid \div h + low \div Pow2(F32Bits)
         IN  IF hi >= Pow2(F32Bits - 1)
             THEN Normal(RoundEven(hi, lo, Pow2(F32Bits - 1)), a.e + b.e + F32Bits)
             ELSE Normal(RoundEven(2 * hi + lo \div Pow2(F32Bits - 1),
                                   lo % Pow2(F32Bits - 1), Pow2(F32Bits - 2)),
                         a.e + b.e + F32Bits - 1)

\* a < b for float32 values >= 0.
Less(a, b) ==
    IF b.m = 0 THEN FALSE
    ELSE IF a.m = 0 THEN TRUE
    ELSE a.e < b.e \/ (a.e = b.e /\ a.m < b.m)

\* ------------------------------------------------------------------------
\* dedup.checkDetails (src/unnamed/part_001)
\* ------------------------------------------------------------------------

Detail(tasks, tests) == [TaskFileCount |-> tasks, TestCount |-> tests]

\* Counts at which float32 rounding matters, and those of the documented
\* example (95 or 99 task files against 100).
ProbeCounts == {95, 99, 100, 262151, 262152, 264799}

Counts == (0..MaxCount) \cup ProbeCounts

Details == {Detail(tasks, tests) : tasks \in Counts, tests \in Counts}

\* checkDetails
checkDetails(srcD, destD) ==
    IF Less(Float32(srcD.TaskFileCount),
            Mul(Percent(99), Float32(destD.TaskFileCount)))
    THEN "Too few tasks"
    ELSE IF Less(Float32(srcD.TestCount),
                 Mul(Percent(95), Float32(destD.TestCount)))
    THEN "Too few tests"
    ELSE "nil"

\* A caller calls checkDetails(cdSrc, cdDest).
CallCheckDetails ==
    /\ cdRet = "none"
    /\ cdRet' = checkDetails(cdSrc, cdDest)
    /\ UNCHANGED <<cdSrc, cdDest>>

\* ------------------------------------------------------------------------
\* etl.ValidateTestPath (src/etl/globals.go)
\* ------------------------------------------------------------------------

Digit == {"0", "1", "2", "3", "4", "5", "6", "7", "8", "9"}

Alpha ==
    {"a", "b", "c", "d", "e", "f", "g", "h", "i", "j", "k", "l", "m",
     "n", "o", "p", "q", "r", "s", "t", "u", "v", "w", "x", "y", "z",
     "A", "B", "C", "D", "E", "F", "G", "H", "I", "J", "K", "L", "M",
     "N", "O", "P", "Q", "R", "S", "T", "U", "V", "W", "X", "Y", "Z"}

\* What "." matches: any character of the paths considered.
AnyChar == Digit \cup Alpha \cup {"/", ":", "-", ".", "_", "$"}

\* A regular expression of fixed length is the sequence of its character
\* classes; str matches it from position i on.
MatchesAt(str, i, classes) ==
    /\ i >= 1
    /\ i + Len(classes) - 1 <= Len(str)
    /\ \A k \in 1..Len(classes) : str[i + k - 1] \in classes[k]

\* \d{4}/[01]\d/[0123]\d/
datePath ==
    <<Digit, Digit, Digit, Digit, {"/"}, {"0", "1"}, Digit, {"/"},
      {"0", "1", "2", "3"}, Digit, {"/"}>>

\* \d{4}[01]\d[0123]\d
YYYYMMDD ==
    <<Digit, Digit, Digit, Digit, {"0", "1"}, Digit, {"0", "1", "2", "3"}, Digit>>

\* (\d{4}[01]\d[0123]\d)T\d{6}Z
dateTime ==
    YYYYMMDD \o <<{"T"}, Digit, Digit, Digit, Digit, Digit, Digit, {"Z"}>>

\* -(mlab\d)-([[:alpha:]]{3}\d[0-9t])-
mlabN_podNN ==
    <<{"-"}, {"m"}, {"l"}, {"a"}, {"b"}, Digit, {"-"}, Alpha, Alpha, Alpha,
      Digit, Digit \cup {"t"}, {"-"}>>

\* -(\d{4}), the end of exp_NNNN
dashNNNN == <<{"-"}, Digit, Digit, Digit, Digit>>

\* (?:\.tar|\.tar.gz|\.tgz)$ : the alternatives, which exclude each other
\* at the end of a string.
suffix ==
    {<<{"."}, {"t"}, {"a"}, {"r"}>>,
     <<{"."}, {"t"}, {"a"}, {"r"}, AnyChar, {"g"}, {"z"}>>,
     <<{"."}, {"t"}, {"g"}, {"z"}>>}

\* ^gs://(.*)/([^/]*)/ matches the part of str before position k: exp runs
\* from j + 1 to k - 2, with j the slash that ends the prefix.
StartMatches(str, j, k) ==
    /\ HasPrefix(str, GsPrefix)
    /\ Len(GsPrefix) < j
    /\ j < k - 1
    /\ k - 1 <= Len(str)
    /\ str[j] = "/"
    /\ str[k - 1] = "/"
    /\ \A i \in (j + 1)..(k - 2) : str[i] # "/"

\* (.*)-(\d{4}) and the suffix match str from position t to its end.
EndMatches(str, t) ==
    \E sfx \in suffix :
       /\ MatchesAt(str, Len(str) - Len(sfx) + 1, sfx)
       /\ MatchesAt(str, Len(str) - Len(sfx) - 4, dashNNNN)
       /\ Len(str) - Len(sfx) - 4 >= t

\* The positions where datePath can start in a match of TaskPattern.
TaskPatternMatches(str) ==
    {k \in 1..Len(str) :
        /\ \E j \in 1..k : StartMatches(str, j, k)
        /\ MatchesAt(str, k, datePath \o dateTime \o mlabN_podNN)
        /\ EndMatches(str, k + Len(datePath \o dateTime \o mlabN_podNN))}

startPattern(str) == \E j, k \in 1..(Len(str) + 1) : StartMatches(str, j, k)
endPattern(str) == \E sfx \in suffix : MatchesAt(str, Len(str) - Len(sfx) + 1, sfx)
podPattern(str) == \E i \in 1..Len(str) : MatchesAt(str, i, mlabN_podNN)

DataPath(exp1, dp, pd, host, pod, experiment, fileNumber) ==
    [Exp1 |-> exp1, DatePath |-> dp, PackedDate |-> pd, Host |-> host,
     Pod |-> pod, Experiment |-> experiment, FileNumber |-> fileNumber]

NilDataPath == DataPath(<<>>, <<>>, <<>>, <<>>, <<>>, <<>>, <<>>)

\* TaskPattern.FindStringSubmatch(str), fields #2 to #8: the first (.*) is
\* greedy, so datePath starts at the last position that allows a match.
Fields(str) ==
    LET k == CHOOSE x \in TaskPatternMatches(str) :
                 \A y \in TaskPatternMatches(str) : y <= x
        j == CHOOSE x \in 1..k : StartMatches(str, x, k)
        t == k + Len(datePath \o dateTime \o mlabN_podNN)
        d == CHOOSE x \in t..Len(str) :
                 /\ MatchesAt(str, x, dashNNNN)
                 /\ \E sfx \in suffix : x + 4 + Len(sfx) = Len(str)
                                          /\ MatchesAt(str, x + 5, sfx)
    IN  DataPath(SubSeq(str, j + 1, k - 2),
                 SubSeq(str, k, k + 9),
                 SubSeq(str, k + 11, k + 18),
                 SubSeq(str, k + 28, k + 32),
                 SubSeq(str, k + 34, k + 38),
                 SubSeq(str, t, d - 1),
                 SubSeq(str, d + 1, d + 4))

ValidateTestPathPodFirst(str) ==
    IF TaskPatternMatches(str) = {}
    THEN [dp |-> NilDataPath,
          err |-> IF ~startPattern(str) THEN "Path should begin with gs://.../.../"
                  ELSE IF ~podPattern(str) THEN "Path should contain -mlabN-podNN"
                  ELSE IF ~endPattern(str) THEN "Path should end in .tar, .tgz, or .tar.gz"
                  ELSE "Invalid test path"]
    ELSE [dp |-> Fields(str), err |-> "nil"]

\* ValidateTestPath
ValidateTestPath(str) ==
    IF TaskPatternMatches(str) = {}
    THEN [dp |-> NilDataPath,
          err |-> IF ~startPattern(str) THEN "Path should begin with gs://.../.../"
                  ELSE IF ~endPattern(str) THEN "Path should end in .tar, .tgz, or .tar.gz"
                  ELSE IF ~podPattern(str) THEN "Path should contain -mlabN-podNN"
                  ELSE "Invalid test path"]
    ELSE [dp |-> Fields(str), err |-> "nil"]

NoPathReturn == [dp |-> NilDataPath, err |-> "none"]

\* The paths considered: one piece of each kind, concatenated.
PathStarts ==
    {<<"g", "s", ":", "/", "/", "m", "-", "l", "a", "b", "-", "s", "a", "n", "d", "b", "o", "x", "/", "n", "d", "t", "/">>,
     <<"x", "g", "s", ":", "/", "/", "m", "-", "l", "a", "b", "-", "s", "a", "n", "d", "b", "o", "x", "/", "n", "d", "t", "/">>,
     <<"g", "s", ":", "/", "/", "n", "d", "t", "/">>}

PathDates ==
    {<<"2", "0", "1", "6", "/", "0", "1", "/", "2", "6", "/">>,
     <<"2", "0", "1", "6", "/", "0", "7", "/", "1", "4", "/">>,
     <<"2", "0", "1", "6", "/", "0", "1", "2", "6", "/">>}

PathTimes ==
    {<<"2", "0", "1", "6", "0", "1", "2", "6", "T", "0", "0", "0", "0", "0", "0", "Z">>,
     <<"2", "0", "1", "6", "0", "7", "1", "4", "T", "1", "2", "3", "4", "5", "6", "Z">>,
     <<"2", "0", "1", "6", "1", "3", "2", "6", "T", "0", "0", "0", "0", "0", "0", "Z">>}

PathPods ==
    {<<"-", "m", "l", "a", "b", "1", "-", "p", "r", "g", "0", "1", "-">>,
     <<"-", "m", "l", "a", "b", "1", "-", "p", "r", "g", "1", "-">>}

PathExps ==
    {<<"n", "d", "t", "-", "0", "0", "0", "7">>,
     <<"p", "a", "r", "i", "s", "-", "t", "r", "a", "c", "e", "r", "o", "u", "t", "e", "-", "0", "0", "0", "0">>,
     <<"n", "d", "t", "-", "0", "7">>}

PathSuffixes ==
    {<<".", "t", "g", "z">>,
     <<".", "t", "a", "r">>,
     <<".", "t", "a", "r", ".", "g", "z">>,
     <<".", "g", "z", ".", "b", "a", "z">>}

Paths ==
    {a \o b \o c \o d \o e \o f :
        a \in PathStarts, b \in PathDates, c \in PathTimes, d \in PathPods,
        e \in PathExps, f \in PathSuffixes}

\* A caller calls ValidateTestPath(path).
CallValidateTestPath ==
    /\ vtpRet = NoPathReturn
    /\ vtpRet' = ValidateTestPath(path)
    /\ UNCHANGED path

\* ------------------------------------------------------------------------
\* The reprocessing command (src/cmd/reproc/reproc.go)
\* ------------------------------------------------------------------------

\* if ec > 10 { panic(err) }
MaxErrors == 10

Days == 1..NumDays

\* The errors of it.Next() and of postOne.
ListingErrors == {"nil", "listing error"}
PostErrors == {"nil", "post error"}

\* ec := atomic.AddInt32(&errCount, 1) and the check of ec that follows:
\* whether the goroutine panics.
TooManyErrors(ec) == ec > MaxErrors

\* month: it.Next() returns a day prefix, for which a postDay goroutine is
\* started on an iterator of its own, or iterator.Done, or an error, which
\* is logged before o.Prefix dereferences the nil object.
MonthNext ==
    /\ crashed = "no"
    /\ monthPc = "list"
    /\ \/ /\ days < NumDays
          /\ days' = days + 1
          /\ dayPc' = [dayPc EXCEPT ![days + 1] = "next"]
          /\ \E n \in 0..MaxFiles : dayFiles' = [dayFiles EXCEPT ![days + 1] = n]
          /\ UNCHANGED <<monthPc, crashed>>
       \/ /\ monthPc' = "wait"
          /\ UNCHANGED <<days, dayPc, dayFiles, crashed>>
       \/ /\ crashed' = "nil dereference"
          /\ UNCHANGED <<monthPc, days, dayPc, dayFiles>>
    /\ UNCHANGED <<errCount, postedAt>>

\* month: wg.Wait() returns when every postDay has returned.
MonthWait ==
    /\ crashed = "no"
    /\ monthPc = "wait"
    /\ \A d \in 1..days : dayPc[d] = "done"
    /\ monthPc' = "exit"
    /\ UNCHANGED <<errCount, days, dayPc, dayFiles, crashed, postedAt>>

\* postDay: o, err := it.Next(). iterator.Done ends the loop; an error is
\* logged and counted, and the goroutine goes on to the check of ec.
PostDayNext(d) ==
    /\ crashed = "no"
    /\ dayPc[d] = "next"
    /\ \E e \in ListingErrors :
          IF e # "nil"
          THEN /\ errCount' = errCount + 1
               /\ dayPc' = [dayPc EXCEPT ![d] = IF TooManyErrors(errCount + 1)
                                                THEN "panic" ELSE "no object"]
               /\ UNCHANGED dayFiles
          ELSE IF dayFiles[d] = 0
          THEN /\ dayPc' = [dayPc EXCEPT ![d] = "done"]
               /\ UNCHANGED <<errCount, dayFiles>>
          ELSE /\ dayFiles' = [dayFiles EXCEPT ![d] = @ - 1]
               /\ dayPc' = [dayPc EXCEPT ![d] = "post"]
               /\ UNCHANGED errCount
    /\ UNCHANGED <<monthPc, days, crashed, postedAt>>

\* postDay: after a listing error that was not one too many,
\* postOne(queue, *fBucket, o.Name) dereferences the nil object.
PostDayNoObject(d) ==
    /\ crashed = "no"
    /\ dayPc[d] = "no object"
    /\ crashed' = "nil dereference"
    /\ UNCHANGED <<errCount, monthPc, days, dayPc, dayFiles, postedAt>>

\* postDay: err = postOne(queue, *fBucket, o.Name), the request is made.
PostOne(d) ==
    /\ crashed = "no"
    /\ dayPc[d] = "post"
    /\ postedAt' = IF errCount > postedAt THEN errCount ELSE postedAt
    /\ \E e \in PostErrors :
          dayPc' = [dayPc EXCEPT ![d] = IF e # "nil" THEN "post error" ELSE "next"]
    /\ UNCHANGED <<errCount, monthPc, days, dayFiles, crashed>>

\* postDay: the error of postOne is logged and counted.
PostDayCount(d) ==
    /\ crashed = "no"
    /\ dayPc[d] = "post error"
    /\ errCount' = errCount + 1
    /\ dayPc' = [dayPc EXCEPT ![d] = IF TooManyErrors(errCount + 1)
                                     THEN "panic" ELSE "next"]
    /\ UNCHANGED <<monthPc, days, dayFiles, crashed, postedAt>>

\* postDay: panic(err) ends the process.
PostDayPanic(d) ==
    /\ crashed = "no"
    /\ dayPc[d] = "panic"
    /\ crashed' = "too many errors"
    /\ UNCHANGED <<errCount, monthPc, days, dayPc, dayFiles, postedAt>>

\* ------------------------------------------------------------------------
\* parser.SwitchParser (src/parser/switch.go)
\* ------------------------------------------------------------------------

\* The sequences that hold each element of the set S once.
RECURSIVE Orderings(_)
Orderings(S) ==
    IF S = {} THEN {<<>>}
    ELSE UNION {{<<x>> \o s : s \in Orderings(S \ {x})} : x \in S}

LowerAlpha ==
    {"a", "b", "c", "d", "e", "f", "g", "h", "i", "j", "k", "l", "m",
     "n", "o", "p", "q", "r", "s", "t", "u", "v", "w", "x", "y", "z"}

\* mlab[0-9]
machineNameRegex == <<{"m"}, {"l"}, {"a"}, {"b"}, Digit>>

\* s1[\-\.]([a-z]{3}[0-9t]{2}): the separator, and the site.
siteNameRegex ==
    <<{"s"}, {"1"}, {"-", "."}, LowerAlpha, LowerAlpha, LowerAlpha,
      Digit \cup {"t"}, Digit \cup {"t"}>>

\* regexp.FindString for an expression of fixed length: the leftmost match,
\* or the empty string.
FindString(classes, str) ==
    LET at == {i \in 1..Len(str) : MatchesAt(str, i, classes)}
    IN  IF at = {} THEN <<>>
        ELSE LET i == CHOOSE i \in at : \A j \in at : i <= j
             IN  SubSeq(str, i, i + Len(classes) - 1)

\* siteNameRegex.FindStringSubmatch(str)[1], or the empty string when
\* there is no match.
SiteOf(str) ==
    LET m == FindString(siteNameRegex, str)
    IN  IF m = <<>> THEN <<>> ELSE SubSeq(m, 4, Len(m))

\* A civil.Date, with Before and After.
Date(y, m, d) == [Year |-> y, Month |-> m, Day |-> d]

DateBefore(d1, d2) ==
    \/ d1.Year < d2.Year
    \/ d1.Year = d2.Year /\ d1.Month < d2.Month
    \/ d1.Year = d2.Year /\ d1.Month = d2.Month /\ d1.Day < d2.Day

DateAfter(d1, d2) == DateBefore(d2, d1)

discoV2DeploymentDate == Date(2020, 9, 9)
discoV2FixDate == Date(2022, 1, 19)

\* The metrics of the files: the two that DISCOv2 got wrong for a while,
\* another one, and one that has no field in the summary.
OctetsLocal == {"switch.octets.local.tx", "switch.octets.local.rx"}
Metrics == OctetsLocal \cup {"switch.octets.uplink.tx", "switch.unknown"}

\* The metrics for which schema.SwitchSummary has a field <Name> and a
\* field <Name>Counter.
SummaryFields == OctetsLocal \cup {"switch.octets.uplink.tx"}

\* A schema.Sample. Value is a float, held here in halves: 3 is 1.5.
Sample(t, v, c) == [Timestamp |-> t, Value |-> v, Counter |-> c]
NoSample == Sample(0, 0, 0)
Timestamps == {1, 2}
Samples == {Sample(t, 2 * t + 1, 6 + t) : t \in Timestamps}

\* int64(sample.Value): the fraction is cut off, towards zero.
Int64(v) == IF v >= 0 THEN v \div 2 ELSE -((-v) \div 2)

\* The samples of an object.
RECURSIVE SeqsUpTo(_, _)
SeqsUpTo(S, n) ==
    IF n = 0 THEN {<<>>}
    ELSE SeqsUpTo(S, n - 1) \cup
         {Append(q, x) : q \in {r \in SeqsUpTo(S, n - 1) : Len(r) = n - 1}, x \in S}

\* The hostnames and experiments of the objects, and the names of the
\* files.
Hostnames ==
    {<<"m", "l", "a", "b", "2", ".", "l", "g", "a", "0", "t">>,
     <<"l", "g", "a", "0", "t">>}
Experiments ==
    {<<"s", "1", ".", "l", "g", "a", "0", "t">>,
     <<"s", "1", "l", "g", "a", "0", "t">>}
SwitchJsonl == <<"s", "w", "i", "t", "c", "h", ".", "j", "s", "o", "n", "l">>
SwitchJsonlGz == SwitchJsonl \o <<".", "g", "z">>
TestNames ==
    {<<"s", "w", "i", "t", "c", "h", ".", "j", "s", "o", "n">>,
     <<"s", "w", "i", "t", "c", "h", ".", "j", "s", "o", "n", ".", "g", "z">>,
     SwitchJsonl, SwitchJsonlGz}

\* A schema.RawSwitchStats.
RawSwitchStats ==
    [Hostname : Hostnames, Experiment : Experiments, Metric : Metrics,
     Sample : SeqsUpTo(Samples, MaxSamples)]

\* The archive dates: around the deployment of DISCOv2, and around its fix.
ArchiveDates ==
    {Date(2020, 9, 8), discoV2DeploymentDate, Date(2020, 9, 10), Date(2021, 6, 1),
     Date(2022, 1, 18), discoV2FixDate, Date(2022, 1, 20)}

\* The samples ParseAndInsert works on: of a file that is not jsonl the
\* last one is dropped and the timestamps of the others moved on by 10.
SamplesOf(name, tmp) ==
    IF Len(tmp.Sample) > 0
       /\ ~HasSuffix(name, SwitchJsonl) /\ ~HasSuffix(name, SwitchJsonlGz)
    THEN [i \in 1..(Len(tmp.Sample) - 1) |->
             [tmp.Sample[i] EXCEPT !.Timestamp = @ + 10]]
    ELSE tmp.Sample

\* A new schema.SwitchRow. Seen is the sample each field was last set
\* from. The parse info and the raw metrics of the row are left out.
SwitchRow(machine, site, ts, date) ==
    [ID |-> <<machine, site, ts>>,
     Date |-> date,
     A |-> [m \in SummaryFields |-> [Delta |-> 0, Counter |-> 0]],
     Seen |-> [m \in SummaryFields |-> NoSample]]

InFixWindowInclusive(date) ==
    /\ ~DateBefore(date, discoV2DeploymentDate)
    /\ ~DateAfter(date, discoV2FixDate)

\* archiveDate.After(discoV2DeploymentDate) && archiveDate.Before(discoV2FixDate)
InFixWindow(date) ==
    /\ DateAfter(date, discoV2DeploymentDate)
    /\ DateBefore(date, discoV2FixDate)

\* getSummaryFromSample: the row after the fields of metric were set.
getSummaryFromSample(metric, sample, row, date) ==
    IF metric \notin SummaryFields THEN row
    ELSE IF metric \in OctetsLocal /\ InFixWindow(date)
    THEN [row EXCEPT !.A[metric] = [Delta |-> 0, Counter |-> 0],
                     !.Seen[metric] = sample]
    ELSE [row EXCEPT !.A[metric] = [Delta |-> Int64(sample.Value),
                                    Counter |-> sample.Counter],
                     !.Seen[metric] = sample]

\* ParseAndInsert: the loop over the samples of tmp, from sample i on, with
\* the rows made so far.
RECURSIVE AddSamples(_, _, _, _, _)
AddSamples(rows, tmp, samples, i, date) ==
    IF i > Len(samples) THEN rows
    ELSE LET sample == samples[i]
             ts == sample.Timestamp
             machine == FindString(machineNameRegex, tmp.Hostname)
             site == SiteOf(tmp.Experiment)
         IN  IF ts \notin DOMAIN rows /\ (machine = <<>> \/ site = <<>>)
             THEN AddSamples(rows, tmp, samples, i + 1, date)
             ELSE LET row == IF ts \in DOMAIN rows THEN rows[ts]
                             ELSE SwitchRow(machine, site, ts, date)
                      new == getSummaryFromSample(tmp.Metric, sample, row, date)
                  IN  AddSamples([t \in DOMAIN rows \cup {ts} |->
                                     IF t = ts THEN new ELSE rows[t]],
                                 tmp, samples, i + 1, date)

\* The timestamps of the samples of tmp that ParseAndInsert keeps, when
\* the machine and the site of tmp are valid.
KeptOf(name, tmp) ==
    IF FindString(machineNameRegex, tmp.Hostname) = <<>> \/ SiteOf(tmp.Experiment) = <<>>
    THEN <<>>
    ELSE [i \in 1..Len(SamplesOf(name, tmp)) |-> SamplesOf(name, tmp)[i].Timestamp]

SortDescending(S) ==
    CHOOSE q \in Orderings(S) : \A i, j \in DOMAIN q : i < j => q[i] > q[j]

\* sort.Slice(timestamps, less) with timestamps[i] < timestamps[j] as less,
\* on the keys of the map.
SortTimestamps(S) ==
    CHOOSE q \in Orderings(S) : \A i, j \in DOMAIN q : i < j => q[i] < q[j]

\* The sequence q, followed by the elements of r that are new.
RECURSIVE AppendNew(_, _)
AppendNew(q, r) ==
    IF r = <<>> THEN q
    ELSE AppendNew(IF \E i \in DOMAIN q : q[i] = Head(r) THEN q ELSE Append(q, Head(r)),
                   Tail(r))

\* The errors of dec.Decode and of Base.Put.
DecodeErrors == {"nil", "decode error"}
PutErrors == {"nil", "put error"}

\* ParseAndInsert is called: nothing decoded yet.
SwitchLocals ==
    /\ decoded = 0
    /\ timestampToRow = <<>>
    /\ timestamps = <<>>
    /\ swI = 1
    /\ swRet = "none"
    /\ swPuts = <<>>
    /\ kept = <<>>

\* ParseAndInsert: dec.More() and dec.Decode(tmp); an error ends the call,
\* an object has its samples added to the rows.
Decode ==
    /\ swPc = "decode"
    /\ decoded < MaxObjects
    /\ \E e \in DecodeErrors :
          IF e # "nil"
          THEN /\ swRet' = e
               /\ swPc' = "done"
               /\ UNCHANGED <<decoded, timestampToRow, kept>>
          ELSE \E tmp \in RawSwitchStats :
                  /\ timestampToRow' = AddSamples(timestampToRow, tmp,
                                                  SamplesOf(testName, tmp), 1, archiveDate)
                  /\ kept' = AppendNew(kept, KeptOf(testName, tmp))
                  /\ decoded' = decoded + 1
                  /\ UNCHANGED <<swPc, swRet>>
    /\ UNCHANGED <<testName, archiveDate, timestamps, swI, swPuts>>

\* ParseAndInsert: dec.More() is false; the timestamps are sorted.
SortRows ==
    /\ swPc = "decode"
    /\ timestamps' = SortTimestamps(DOMAIN timestampToRow)
    /\ swPc' = "put"
    /\ UNCHANGED <<testName, archiveDate, decoded, timestampToRow, swI, swRet,
                   swPuts, kept>>

\* ParseAndInsert: p.Base.Put(row) for the next timestamp; an error ends
\* the call.
PutRow ==
    /\ swPc = "put"
    /\ swI <= Len(timestamps)
    /\ swPuts' = Append(swPuts, timestampToRow[timestamps[swI]])
    /\ \E e \in PutErrors :
          IF e # "nil"
          THEN swRet' = e /\ swPc' = "done" /\ UNCHANGED swI
          ELSE swI' = swI + 1 /\ UNCHANGED <<swPc, swRet>>
    /\ UNCHANGED <<testName, archiveDate, decoded, timestampToRow, timestamps, kept>>

\* ParseAndInsert: return nil
SwitchReturn ==
    /\ swPc = "put"
    /\ swI > Len(timestamps)
    /\ swRet' = "nil"
    /\ swPc' = "done"
    /\ UNCHANGED <<testName, archiveDate, decoded, timestampToRow, timestamps, swI,
                   swPuts, kept>>

\* ------------------------------------------------------------------------
\* Tables of the warehouse (src/unnamed/part_001, package dedup)
\* ------------------------------------------------------------------------

\* A bigquery.Table: the dataset and the table id, partition included.
Table(dataset, id) == [DatasetID |-> dataset, TableID |-> id]

NilTable == Table("", <<>>)

\* The test ids; both come from the same task file.
TestIds == {"t1", "t2"}

\* The rows of a table: how many rows it holds per test id.
Contents == [TestIds -> 0..MaxDup]

Empty == [t \in TestIds |-> 0]

\* SUM(tests) and the number of task files of GetTableDetail.
RECURSIVE SumOver(_, _)
SumOver(f, S) ==
    IF S = {} THEN 0
    ELSE LET x == CHOOSE x \in S : TRUE IN f[x] + SumOver(f, S \ {x})

\* GetTableDetail: TestCount and TaskFileCount of a table; a table or
\* partition that does not exist counts as empty.
GetTableDetail(w, table) ==
    IF table \notin DOMAIN w THEN Detail(0, 0)
    ELSE Detail(IF \E t \in TestIds : w[table].rows[t] > 0 THEN 1 ELSE 0,
                SumOver(w[table].rows, TestIds))

\* Dedup_Alpha: the rows distinct by test_id.
Distinct(rows) == [t \in TestIds |-> IF rows[t] > 0 THEN 1 ELSE 0]

\* denseDateSuffix matches name: (.*)([_$])(YYYYMMDD)$
denseDateSuffix(name) ==
    /\ Len(name) > Len(YYYYMMDD)
    /\ MatchesAt(name, Len(name) - Len(YYYYMMDD) + 1, YYYYMMDD)
    /\ name[Len(name) - Len(YYYYMMDD)] \in {"_", "$"}

tableNameParts(prefix, isPartitioned, yyyymmdd) ==
    [prefix |-> prefix, isPartitioned |-> isPartitioned, yyyymmdd |-> yyyymmdd]

\* getTableParts: the parts, and whether there is an error.
getTableParts(name) ==
    IF ~denseDateSuffix(name)
    THEN [parts |-> tableNameParts(<<>>, FALSE, <<>>), err |-> "Invalid template suffix"]
    ELSE [parts |-> tableNameParts(SubSeq(name, 1, Len(name) - Len(YYYYMMDD) - 1),
                                   name[Len(name) - Len(YYYYMMDD)] = "$",
                                   SubSeq(name, Len(name) - Len(YYYYMMDD) + 1, Len(name))),
          err |-> "nil"]

Contains(str, c) == \E i \in 1..Len(str) : str[i] = c

\* getTable
getTable(dataset, table, partition) ==
    IF Contains(table, "$") \/ Contains(table, "_")
    THEN [table |-> NilTable, err |-> "Table base must not include _ or $"]
    ELSE IF denseDateSuffix(table)
    THEN [table |-> NilTable, err |-> "Table base must not include partition or template suffix"]
    ELSE IF getTableParts(table \o <<"$">> \o partition).err # "nil"
    THEN [table |-> NilTable, err |-> getTableParts(table \o <<"$">> \o partition).err]
    ELSE [table |-> Table(dataset, table \o <<"$">> \o partition), err |-> "nil"]

\* ------------------------------------------------------------------------
\* dedup.SanityCheckAndCopy and dedup.WaitForJob (src/unnamed/part_001)
\* ------------------------------------------------------------------------

\* backoff := 10 * time.Millisecond
InitialBackoff == 10
\* WaitForJob(context.Background(), job, 10*time.Second)
MaxBackoff == 10000

RunErrors == {"nil", "run error"}
StatusErrors == {"nil", "status error"}

\* A call of the warehouse with context c fails at once when c is
\* cancelled; context.Background() is never cancelled.
Canceled(c) == c = "ctx" /\ ctxDone

\* SanityCheckAndCopy: the context handed to WaitForJob.
WaitContext == "background"

\* SanityCheckAndCopy: getTableParts of the source, getTable of the
\* destination.
CopyTables ==
    /\ cpPc = "tables"
    /\ LET parts == getTableParts(cpSrc.TableID)
           dest == getTable(cpDestDataset, cpDestName, parts.parts.yyyymmdd)
       IN  IF parts.err # "nil"
           THEN cpRet' = parts.err /\ cpPc' = "done" /\ UNCHANGED cpDest
           ELSE IF dest.err # "nil"
           THEN cpRet' = dest.err /\ cpPc' = "done" /\ UNCHANGED cpDest
           ELSE cpDest' = dest.table /\ cpPc' = "run" /\ UNCHANGED cpRet
    /\ UNCHANGED <<cpSrc, cpDestDataset, cpDestName, ctxDone, wjCtx, jobState,
                   backoff, previous, polled, slept, whVars>>

\* SanityCheckAndCopy: job, err := copier.Run(ctx), then the call of
\* WaitForJob up to its loop.
CopierRun ==
    /\ cpPc = "run"
    /\ \E e \in RunErrors :
          IF Canceled("ctx") \/ e # "nil"
          THEN /\ cpRet' = IF Canceled("ctx") THEN "context canceled" ELSE e
               /\ cpPc' = "done"
               /\ UNCHANGED <<jobState, wjCtx, backoff, previous>>
          ELSE /\ jobState' = "running"
               /\ wjCtx' = WaitContext
               /\ backoff' = InitialBackoff
               /\ previous' = InitialBackoff
               /\ cpPc' = "poll"
               /\ UNCHANGED cpRet
    /\ UNCHANGED <<cpSrc, cpDestDataset, cpDestName, cpDest, ctxDone, polled, slept, whVars>>

\* What a poll that found the job in state j with error e returns; "none"
\* when WaitForJob goes on.
PollReturnIgnoresJobError(e, j) ==
    IF e # "nil" THEN e
    ELSE IF j \in {"done", "failed"} THEN "nil"
    ELSE "none"

PollReturn(e, j) ==
    IF e # "nil" THEN e
    ELSE IF j = "failed" THEN "job error"
    ELSE IF j = "done" THEN "nil"
    ELSE "none"

NextBackoffDoubles(b, p) == b + b

\* WaitForJob: tmp := previous; previous = backoff; backoff = backoff + tmp
NextBackoff(b, p) == b + p

\* WaitForJob: status, err := job.Status(ctx), the checks of err and of
\* status.Done(), and the new backoff.
Poll ==
    /\ cpPc = "poll"
    /\ \E e \in StatusErrors :
          LET se == IF Canceled(wjCtx) THEN "context canceled" ELSE e
          IN  /\ polled' = IF se # "nil" THEN se ELSE jobState
              /\ IF PollReturn(se, jobState) # "none"
                 THEN /\ cpRet' = PollReturn(se, jobState)
                      /\ cpPc' = "done"
                      /\ UNCHANGED <<backoff, previous>>
                 ELSE /\ cpPc' = "sleep"
                      /\ IF backoff < MaxBackoff
                         THEN previous' = backoff /\ backoff' = NextBackoff(backoff, previous)
                         ELSE UNCHANGED <<backoff, previous>>
                      /\ UNCHANGED cpRet
    /\ UNCHANGED <<cpSrc, cpDestDataset, cpDestName, cpDest, ctxDone, wjCtx,
                   jobState, slept, whVars>>

\* WaitForJob: time.Sleep(backoff)
Sleep ==
    /\ cpPc = "sleep"
    /\ cpPc' = "poll"
    /\ slept' = IF Len(slept) < MaxSleeps THEN Append(slept, backoff) ELSE slept
    /\ UNCHANGED <<cpSrc, cpDestDataset, cpDestName, cpDest, cpRet, ctxDone,
                   wjCtx, jobState, backoff, previous, polled, whVars>>

WriteAppend(w, dest, rows) ==
    [t \in TestIds |-> (IF dest \in DOMAIN w THEN w[dest].rows[t] ELSE 0) + rows[t]]

\* copier.WriteDisposition: the rows of dest after rows were copied to it.
WriteTruncate(w, dest, rows) == rows

\* The copy job ends. With WriteTruncate, a job that succeeds replaces the
\* rows of the destination by those of the source; a job that fails, as it
\* does when the source does not exist, changes nothing.
JobEnds ==
    /\ jobState = "running"
    /\ \/ /\ cpSrc \in DOMAIN wh
          /\ jobState' = "done"
          /\ wh' = [t \in DOMAIN wh \cup {cpDest} |->
                       IF t = cpDest
                       THEN [rows |-> WriteTruncate(wh, cpDest, wh[cpSrc].rows),
                             LastModified |-> now]
                       ELSE wh[t]]
       \/ /\ jobState' = "failed"
          /\ UNCHANGED wh
    /\ UNCHANGED <<now, cpSrc, cpDestDataset, cpDestName, cpDest, cpPc, cpRet,
                   ctxDone, wjCtx, backoff, previous, polled, slept>>

\* The owner of ctx cancels it.
CancelCtx ==
    /\ ~ctxDone
    /\ cpPc \notin {"idle", "done"}
    /\ ctxDone' = TRUE
    /\ UNCHANGED <<cpSrc, cpDestDataset, cpDestName, cpDest, cpPc, cpRet,
                   wjCtx, jobState, backoff, previous, polled, slept, whVars>>

\* ------------------------------------------------------------------------
\* dedup.CheckAndDedup (src/unnamed/part_001)
\* ------------------------------------------------------------------------

Options(minSrcAge, ignoreDestAge, dryRun, copyOnly) ==
    [MinSrcAge |-> minSrcAge, IgnoreDestAge |-> ignoreDestAge,
     DryRun |-> dryRun, CopyOnly |-> copyOnly]

TableInfo(name, lastModified) == [Name |-> name, LastModifiedTime |-> lastModified]

\* srcDS.DatasetID
SrcDataset == "batch"

\* A Detail, or a LastModified, that was not fetched yet.
NoDetail == Detail(-1, -1)
NotFetched == -1

\* The errors of the calls of the warehouse.
QueryErrors == {"nil", "query error"}

TooRecentNever(info, opts) == FALSE

\* CheckAndDedup: time.Now().Sub(srcInfo.LastModifiedTime) < options.MinSrcAge
TooRecent(info, opts) == now - info.LastModifiedTime < opts.MinSrcAge

\* CheckAndDedup, up to the construction of dedupTable: the error of the
\* first check that fails.
Preconditions(info, dest, opts) ==
    LET srcParts == getTableParts(info.Name)
        destParts == getTableParts(dest.TableID)
        dedup == getTable(SrcDataset, srcParts.parts.prefix, srcParts.parts.yyyymmdd)
    IN  IF srcParts.err # "nil" THEN srcParts.err
        ELSE IF TooRecent(info, opts) THEN "Source is too recent"
        ELSE IF dest.DatasetID = SrcDataset
        THEN "Source and Destination should be in different datasets"
        ELSE IF destParts.err # "nil" THEN destParts.err
        ELSE IF destParts.parts.yyyymmdd # srcParts.parts.yyyymmdd
        THEN "Source and Destination should have same partition/template date"
        ELSE IF dedup.err # "nil" THEN dedup.err
        ELSE IF dest.DatasetID = dedup.table.DatasetID
        THEN "Dedup and Destination should be in different datasets"
        ELSE "nil"

\* CheckAndDedup returns e.
DedupReturn(e) ==
    /\ ddRet' = e
    /\ ddPc' = "done"

\* CheckAndDedup, lines 640 to 669.
CheckTables ==
    /\ ddPc = "start"
    /\ LET e == Preconditions(srcInfo, destTable, options)
           srcParts == getTableParts(srcInfo.Name).parts
       IN  IF e # "nil"
           THEN DedupReturn(e) /\ UNCHANGED dedupTable
           ELSE /\ dedupTable' = getTable(SrcDataset, srcParts.prefix, srcParts.yyyymmdd).table
                /\ ddPc' = "metadata"
                /\ UNCHANGED ddRet
    /\ UNCHANGED <<options, srcInfo, destTable, destLastModified, srcDetail,
                   destDetail, dedupDetail, dedups, wh0, runs, firstRet, firstWh,
                   whVars, copyVars>>

\* CheckAndDedup: srcTable.Metadata(ctx), "just check that table exists".
SrcMetadata ==
    /\ ddPc = "metadata"
    /\ \E e \in QueryErrors :
          IF Table(SrcDataset, srcInfo.Name) \notin DOMAIN wh
          THEN DedupReturn("Not found")
          ELSE IF e # "nil" THEN DedupReturn(e)
          ELSE ddPc' = "destAge" /\ UNCHANGED ddRet
    /\ UNCHANGED <<options, srcInfo, destTable, dedupTable, destLastModified,
                   srcDetail, destDetail, dedupDetail, dedups, wh0, runs,
                   firstRet, firstWh, whVars, copyVars>>

\* GetPartitionInfo: LastModified of a partition; the zero time when the
\* partition does not exist.
PartitionLastModified(w, table) ==
    IF table \in DOMAIN w THEN w[table].LastModified ELSE 0

\* time.Time.Before
Before(t, u) == t < u

\* CheckAndDedup: checkDestOlder, unless options.IgnoreDestAge.
CheckDestAge ==
    /\ ddPc = "destAge"
    /\ IF options.IgnoreDestAge
       THEN ddPc' = "details" /\ UNCHANGED <<ddRet, destLastModified>>
       ELSE \E e \in QueryErrors :
               IF e # "nil" \/ ~getTableParts(destTable.TableID).parts.isPartitioned
               THEN /\ DedupReturn(IF e # "nil" THEN e ELSE "TableID missing partition")
                    /\ UNCHANGED destLastModified
               ELSE /\ destLastModified' = PartitionLastModified(wh, destTable)
                    /\ IF Before(srcInfo.LastModifiedTime, destLastModified')
                       THEN DedupReturn("Source older than destination partition")
                       ELSE ddPc' = "details" /\ UNCHANGED ddRet
    /\ UNCHANGED <<options, srcInfo, destTable, dedupTable, srcDetail, destDetail,
                   dedupDetail, dedups, wh0, runs, firstRet, firstWh, whVars,
                   copyVars>>

\* CheckAndDedup: GetTableDetail of the source and of the destination.
GetDetails ==
    /\ ddPc = "details"
    /\ \E e1, e2 \in QueryErrors :
          IF e1 # "nil"
          THEN DedupReturn(e1) /\ UNCHANGED <<srcDetail, destDetail>>
          ELSE /\ srcDetail' = GetTableDetail(wh, Table(SrcDataset, srcInfo.Name))
               /\ IF e2 # "nil"
                  THEN DedupReturn(e2) /\ UNCHANGED destDetail
                  ELSE /\ destDetail' = GetTableDetail(wh, destTable)
                       /\ ddPc' = "check"
                       /\ UNCHANGED ddRet
    /\ UNCHANGED <<options, srcInfo, destTable, dedupTable, destLastModified,
                   dedupDetail, dedups, wh0, runs, firstRet, firstWh, whVars,
                   copyVars>>

AfterCheckIgnoresCopyOnly(e, opts) ==
    IF e # "nil" \/ opts.DryRun THEN "done" ELSE "dedup"

AfterCheckIgnoresDryRun(e, opts) ==
    IF e # "nil" THEN "done"
    ELSE IF opts.CopyOnly THEN "recheck"
    ELSE "dedup"

\* CheckAndDedup: where it goes after checkDetails(srcDetail, destDetail)
\* returned e.
AfterCheck(e, opts) ==
    IF e # "nil" THEN "done"
    ELSE IF opts.DryRun THEN "done"
    ELSE IF opts.CopyOnly THEN "recheck"
    ELSE "dedup"

\* CheckAndDedup: checkDetails(srcDetail, destDetail), options.DryRun and
\* options.CopyOnly.
SanityCheck ==
    /\ ddPc = "check"
    /\ LET e == checkDetails(srcDetail, destDetail)
       IN  /\ ddPc' = AfterCheck(e, options)
           /\ ddRet' = IF ddPc' = "done" THEN e ELSE ddRet
    /\ UNCHANGED <<options, srcInfo, destTable, dedupTable, destLastModified,
                   srcDetail, destDetail, dedupDetail, dedups, wh0, runs,
                   firstRet, firstWh, whVars, copyVars>>

\* CheckAndDedup: srcDS.Dedup_Alpha(srcInfo.Name, "test_id", dedupTable)
\* writes the rows of the source, distinct by test_id, to dedupTable.
DedupAlpha ==
    /\ ddPc = "dedup"
    /\ dedups' = dedups + 1
    /\ \E e \in QueryErrors :
          IF e # "nil"
          THEN DedupReturn(e) /\ UNCHANGED wh
          ELSE /\ wh' = [t \in DOMAIN wh \cup {dedupTable} |->
                            IF t = dedupTable
                            THEN [rows |-> Distinct(wh[Table(SrcDataset, srcInfo.Name)].rows),
                                  LastModified |-> now]
                            ELSE wh[t]]
               /\ ddPc' = "recheck"
               /\ UNCHANGED ddRet
    /\ UNCHANGED <<options, srcInfo, destTable, dedupTable, destLastModified,
                   srcDetail, destDetail, dedupDetail, wh0, runs, firstRet,
                   firstWh, now, copyVars>>

\* CheckAndDedup: GetTableDetail(srcDS, dedupTable), checkDetails(dedupDetail,
\* destDetail), and the call of SanityCheckAndCopy.
Recheck ==
    /\ ddPc = "recheck"
    /\ \E e \in QueryErrors :
          IF e # "nil"
          THEN DedupReturn(e) /\ UNCHANGED <<dedupDetail, copyVars>>
          ELSE /\ dedupDetail' = GetTableDetail(wh, dedupTable)
               /\ IF checkDetails(dedupDetail', destDetail) # "nil"
                  THEN /\ DedupReturn(checkDetails(dedupDetail', destDetail))
                       /\ UNCHANGED copyVars
                  ELSE /\ ddPc' = "copy"
                       /\ cpSrc' = dedupTable
                       /\ cpDestDataset' = destTable.DatasetID
                       /\ cpDestName' = getTableParts(destTable.TableID).parts.prefix
                       /\ cpPc' = "tables"
                       /\ UNCHANGED <<ddRet, cpDest, cpRet, ctxDone, wjCtx,
                                      jobState, backoff, previous, polled, slept>>
    /\ UNCHANGED <<options, srcInfo, destTable, dedupTable, destLastModified,
                   srcDetail, destDetail, dedups, wh0, runs, firstRet, firstWh,
                   whVars>>

\* CheckAndDedup: SanityCheckAndCopy returned, and the locals of WaitForJob
\* are gone.
CopyReturns ==
    /\ ddPc = "copy"
    /\ cpPc = "done"
    /\ DedupReturn(cpRet)
    /\ backoff' = 0
    /\ previous' = 0
    /\ polled' = "none"
    /\ slept' = <<>>
    /\ UNCHANGED <<options, srcInfo, destTable, dedupTable, destLastModified,
                   srcDetail, destDetail, dedupDetail, dedups, wh0, runs,
                   firstRet, firstWh, whVars, cpSrc, cpDestDataset, cpDestName,
                   cpDest, cpPc, cpRet, ctxDone, wjCtx, jobState>>

\* The locals of CheckAndDedup before a run.
DedupLocals ==
    /\ dedupTable = NilTable
    /\ destLastModified = NotFetched
    /\ srcDetail = NoDetail
    /\ destDetail = NoDetail
    /\ dedupDetail = NoDetail
    /\ dedups = 0

\* CheckAndDedup is called again, later, with the same arguments, once the
\* job of the first run has ended.
Rerun ==
    /\ ddPc = "done"
    /\ runs = 1
    /\ jobState # "running"
    /\ runs' = 2
    /\ now' = now + 1
    /\ firstRet' = ddRet
    /\ firstWh' = wh
    /\ wh0' = wh
    /\ ddPc' = "start"
    /\ ddRet' = "none"
    /\ dedupTable' = NilTable
    /\ destLastModified' = NotFetched
    /\ srcDetail' = NoDetail
    /\ destDetail' = NoDetail
    /\ dedupDetail' = NoDetail
    /\ dedups' = 0
    /\ cpSrc' = NilTable
    /\ cpDestDataset' = ""
    /\ cpDestName' = <<>>
    /\ cpPc' = "idle"
    /\ cpDest' = NilTable
    /\ cpRet' = "none"
    /\ wjCtx' = "none"
    /\ jobState' = "none"
    /\ backoff' = 0
    /\ previous' = 0
    /\ polled' = "none"
    /\ slept' = <<>>
    /\ UNCHANGED <<options, srcInfo, destTable, wh, ctxDone>>

\* ------------------------------------------------------------------------
\* dedup.ProcessTablesMatching (src/unnamed/part_001)
\* ------------------------------------------------------------------------

\* strings.Contains
ContainsString(str, sub) ==
    \E i \in 0..(Len(str) - Len(sub)) : SubSeq(str, i + 1, i + Len(sub)) = sub

\* len(strings.Split(str, "_"))
SplitLen(str) == Len(SelectSeq(str, LAMBDA c : c = "_")) + 1

\* sort.Slice with LastModifiedTime.Before as less: any ordering in which
\* no table comes before an older one.
SortedByAge(S) ==
    {s \in Orderings(S) :
        \A i, j \in DOMAIN s :
            i < j => ~Before(s[j].LastModifiedTime, s[i].LastModifiedTime)}

\* The errors of listing the tables, and of CheckAndDedup.
ListErrors == {"nil", "list error"}
DedupErrors == {"nil", "dedup error"}

\* ProcessTablesMatching returns e.
TablesReturn(e) ==
    /\ ptRet' = e
    /\ ptPc' = "done"

\* ProcessTablesMatching: the check of srcPattern and GetTableInfoMatching,
\* which leaves out the tables that are not regular tables.
ListTables ==
    /\ ptPc = "start"
    /\ IF SplitLen(srcPattern) # 2
       THEN TablesReturn("Invalid source pattern") /\ UNCHANGED ptInfo
       ELSE \E e \in ListErrors :
               IF e # "nil"
               THEN TablesReturn(e) /\ UNCHANGED ptInfo
               ELSE \E R \in SUBSET {t \in dsTables : ContainsString(t.Name, srcPattern)} :
                       /\ ptInfo' \in SortedByAge(R)
                       /\ ptPc' = "loop"
                       /\ UNCHANGED ptRet
    /\ ptI' = 1
    /\ UNCHANGED <<dsTables, srcPattern, destBase, ptLog, now>>

AfterCheckAndDedupGoesOn(e) == "loop"

\* ProcessTablesMatching: where it goes after CheckAndDedup returned e.
AfterCheckAndDedup(e) == IF e # "nil" THEN "done" ELSE "loop"

\* ProcessTablesMatching: one pass of the loop over info, in which
\* CheckAndDedup takes no time or one tick; the error of getTable is
\* dropped, so a destination name that it refuses leaves destTable nil,
\* CheckAndDedup is called with it and panics at destTable.DatasetID.
ProcessTable ==
    /\ ptPc = "loop"
    /\ ptI <= Len(ptInfo)
    /\ LET info == ptInfo[ptI]
           parts == getTableParts(info.Name)
           dest == getTable("base", destBase, parts.parts.yyyymmdd)
       IN  IF now - info.LastModifiedTime < options.MinSrcAge
           THEN /\ ptI' = ptI + 1
                /\ UNCHANGED <<ptPc, ptRet, ptLog, now>>
           ELSE IF parts.err # "nil"
           THEN /\ TablesReturn(parts.err)
                /\ UNCHANGED <<ptI, ptLog, now>>
           ELSE IF dest.err # "nil"
           THEN /\ ptLog' = Append(ptLog, [info |-> info, dest |-> dest.table, ret |-> "panic"])
                /\ TablesReturn("panic")
                /\ UNCHANGED <<ptI, now>>
           ELSE \E e \in DedupErrors, d \in {0, 1} :
                   /\ ptLog' = Append(ptLog, [info |-> info, dest |-> dest.table, ret |-> e])
                   /\ now' = IF now < MaxNow THEN now + d ELSE now
                   /\ ptPc' = AfterCheckAndDedup(e)
                   /\ ptRet' = IF e # "nil" THEN e ELSE ptRet
                   /\ ptI' = IF e # "nil" THEN ptI ELSE ptI + 1
    /\ UNCHANGED <<dsTables, srcPattern, destBase, ptInfo>>

\* ProcessTablesMatching: the loop is over.
TablesDone ==
    /\ ptPc = "loop"
    /\ ptI > Len(ptInfo)
    /\ TablesReturn("nil")
    /\ UNCHANGED <<dsTables, srcPattern, destBase, ptInfo, ptI, ptLog, now>>

\* ------------------------------------------------------------------------
\* Concurrent callers of row.Buffer
\* ------------------------------------------------------------------------

\* A goroutine calls buf.Append(row) with a fresh row.
CallAppend(g) ==
    /\ gpc[g] = "idle"
    /\ nrows < MaxRows
    /\ nrows' = nrows + 1
    /\ gop' = [gop EXCEPT ![g] = "Append"]
    /\ grow' = [grow EXCEPT ![g] = nrows + 1]
    /\ gpc' = [gpc EXCEPT ![g] = "lock"]
    /\ UNCHANGED <<bufSize, bufRows, bufLock, glocal, gres, got, handed, appended>>

\* A goroutine calls buf.Reset().
CallReset(g) ==
    /\ gpc[g] = "idle"
    /\ gop' = [gop EXCEPT ![g] = "Reset"]
    /\ grow' = [grow EXCEPT ![g] = 0]
    /\ gpc' = [gpc EXCEPT ![g] = "lock"]
    /\ UNCHANGED <<bufSize, bufRows, bufLock, glocal, gres, got, handed, appended, nrows>>

LockNoWait(g) ==
    /\ gpc[g] = "lock"
    /\ bufLock' = g
    /\ gpc' = [gpc EXCEPT ![g] = "read"]
    /\ UNCHANGED <<bufSize, bufRows, gop, grow, glocal, gres, got, handed, appended, nrows>>

\* buf.lock.Lock(): blocks while another goroutine holds the mutex.
Lock(g) ==
    /\ gpc[g] = "lock"
    /\ bufLock = 0
    /\ bufLock' = g
    /\ gpc' = [gpc EXCEPT ![g] = "read"]
    /\ UNCHANGED <<bufSize, bufRows, gop, grow, glocal, gres, got, handed, appended, nrows>>

\* The method reads buf.rows (len(buf.rows) < buf.size; rows := buf.rows;
\* res := buf.rows).
ReadRows(g) ==
    /\ gpc[g] = "read"
    /\ glocal' = [glocal EXCEPT ![g] = bufRows]
    /\ gpc' = [gpc EXCEPT ![g] = "write"]
    /\ UNCHANGED <<bufSize, bufRows, bufLock, gop, grow, gres, got, handed, appended, nrows>>

\* Append assigns buf.rows and fixes its return value.
AppendWrite(g) ==
    /\ gpc[g] = "write"
    /\ gop[g] = "Append"
    /\ LET r == BufferAppend(glocal[g], bufSize, grow[g])
       IN /\ bufRows' = r.rows
          /\ gres' = [gres EXCEPT ![g] = r.ret]
    /\ appended' = Append(appended, grow[g])
    /\ gpc' = [gpc EXCEPT ![g] = "unlock"]
    /\ UNCHANGED <<bufSize, bufLock, gop, grow, glocal, got, handed, nrows>>

\* Reset assigns buf.rows and fixes its return value.
ResetWrite(g) ==
    /\ gpc[g] = "write"
    /\ gop[g] = "Reset"
    /\ LET r == BufferReset(glocal[g])
       IN /\ bufRows' = r.rows
          /\ gres' = [gres EXCEPT ![g] = r.ret]
    /\ gpc' = [gpc EXCEPT ![g] = "unlock"]
    /\ UNCHANGED <<bufSize, bufLock, gop, grow, glocal, got, handed, appended, nrows>>

\* defer buf.lock.Unlock(), and the method returns its slice to the caller.
Unlock(g) ==
    /\ gpc[g] = "unlock"
    /\ bufLock' = 0
    /\ got' = [got EXCEPT ![g] = got[g] \o gres[g]]
    /\ handed' = handed \o gres[g]
    /\ gres' = [gres EXCEPT ![g] = <<>>]
    /\ gpc' = [gpc EXCEPT ![g] = "idle"]
    /\ gop' = [gop EXCEPT ![g] = "none"]
    /\ grow' = [grow EXCEPT ![g] = 0]
    /\ glocal' = [glocal EXCEPT ![g] = <<>>]
    /\ UNCHANGED <<bufSize, bufRows, appended, nrows>>

\* ------------------------------------------------------------------------
\* Specifications
\* ------------------------------------------------------------------------

\* The Buffer component before any call.
BufferIdle ==
    /\ bufRows = <<>>
    /\ bufLock = 0
    /\ gpc = [g \in Goroutines |-> "idle"]
    /\ gop = [g \in Goroutines |-> "none"]
    /\ grow = [g \in Goroutines |-> 0]
    /\ glocal = [g \in Goroutines |-> <<>>]
    /\ gres = [g \in Goroutines |-> <<>>]
    /\ got = [g \in Goroutines |-> <<>>]
    /\ handed = <<>>
    /\ appended = <<>>
    /\ nrows = 0

\* NewBase(label, sink, bufSize): a new Buffer and zero stats.
NewBase ==
    /\ pbRows = NewBuffer(pbSize).rows
    /\ stats = ZeroStats
    /\ pbPc = "idle"
    /\ pbOp = "none"
    /\ pbBatch = <<>>
    /\ pbBatchNil = TRUE
    /\ pbDone = 0
    /\ pbErr = "nil"
    /\ pbCallErr = "none"
    /\ pbRet = NilError
    /\ commits = <<>>
    /\ puts = <<>>

\* An ETLSource on which NextTest was not called yet.
SourceIdle ==
    /\ tarPos = 0
    /\ bodyPos = 0
    /\ ntPc = "idle"
    /\ trial = 0
    /\ delay = RetryBaseTime
    /\ hdr = 0
    /\ ntData = NilData
    /\ ntErr = "nil"
    /\ sleeps = <<>>
    /\ hdrReads = 0
    /\ bodyReads = 0
    /\ ntRet = NoReturn
    /\ returned = <<>>

\* No archive.
NoSource ==
    /\ archive = <<>>
    /\ maxSize = 0
    /\ SourceIdle

\* NewETLSource was not called.
OpenIdle ==
    /\ opPc = "start"
    /\ closeCaller = "none"
    /\ rdrState = "none"
    /\ zipState = "none"
    /\ ctxState = "none"
    /\ zipper = FALSE
    /\ opErr = "nil"
    /\ closeErr = "nil"
    /\ releases = <<>>

NoOpen ==
    /\ uri = <<>>
    /\ client = FALSE
    /\ OpenIdle

\* NewTask, and ProcessAllTests about to call NextTest for the first time.
NewTask ==
    /\ taskPc = "next"
    /\ taskRet = NoReturn
    /\ taskReads = <<>>
    /\ taskCalls = <<>>
    /\ tarBroken = "nil"
    /\ taskLogged = FALSE

\* No use of package dedup.
NoDetails ==
    /\ cdSrc = Detail(0, 0)
    /\ cdDest = Detail(0, 0)
    /\ cdRet = "none"

NoWarehouse ==
    /\ now = 0
    /\ wh = <<>>

\* No call of SanityCheckAndCopy.
CopyIdle ==
    /\ cpDest = NilTable
    /\ cpRet = "none"
    /\ ctxDone = FALSE
    /\ wjCtx = "none"
    /\ jobState = "none"
    /\ backoff = 0
    /\ previous = 0
    /\ polled = "none"
    /\ slept = <<>>

NoCopy ==
    /\ cpSrc = NilTable
    /\ cpDestDataset = ""
    /\ cpDestName = <<>>
    /\ cpPc = "idle"
    /\ CopyIdle

\* No call of CheckAndDedup.
NoCheckAndDedup ==
    /\ options = Options(0, FALSE, FALSE, FALSE)
    /\ srcInfo = TableInfo(<<>>, 0)
    /\ destTable = NilTable
    /\ ddPc = "idle"
    /\ ddRet = "none"
    /\ DedupLocals
    /\ wh0 = <<>>
    /\ runs = 0
    /\ firstRet = "none"
    /\ firstWh = <<>>

\* No call of ProcessTablesMatching.
NoTables ==
    /\ dsTables = {}
    /\ srcPattern = <<>>
    /\ destBase = <<>>
    /\ ptInfo = <<>>
    /\ ptI = 0
    /\ ptPc = "idle"
    /\ ptRet = "none"
    /\ ptLog = <<>>

NoDedup ==
    /\ NoDetails
    /\ NoWarehouse
    /\ NoCopy
    /\ NoCheckAndDedup
    /\ NoTables

NoPath ==
    /\ path = <<>>
    /\ vtpRet = NoPathReturn

\* The reprocessing command is not run.
NoReproc ==
    /\ errCount = 0
    /\ monthPc = "list"
    /\ days = 0
    /\ dayPc = [d \in Days |-> "none"]
    /\ dayFiles = [d \in Days |-> 0]
    /\ crashed = "no"
    /\ postedAt = -1

\* No switch file is parsed.
NoSwitch ==
    /\ testName = <<>>
    /\ archiveDate = Date(0, 0, 0)
    /\ swPc = "decode"
    /\ SwitchLocals

NoBuffer ==
    /\ bufSize = 0
    /\ BufferIdle

NoBase ==
    /\ pbSize = 0
    /\ NewBase

\* Several goroutines share one Buffer of any capacity 0..MaxSize.
InitBuffer ==
    /\ bufSize \in 0..MaxSize
    /\ BufferIdle
    /\ NoBase
    /\ NoSource
    /\ NoOpen
    /\ NewTask
    /\ NoDedup
    /\ NoPath
    /\ NoReproc
    /\ NoSwitch

NextBuffer ==
    \E g \in Goroutines :
       \/ CallAppend(g) /\ UNCHANGED notBufVars
       \/ CallReset(g) /\ UNCHANGED notBufVars
       \/ Lock(g) /\ UNCHANGED notBufVars
       \/ ReadRows(g) /\ UNCHANGED notBufVars
       \/ AppendWrite(g) /\ UNCHANGED notBufVars
       \/ ResetWrite(g) /\ UNCHANGED notBufVars
       \/ Unlock(g) /\ UNCHANGED notBufVars

SpecBuffer == InitBuffer /\ [][NextBuffer]_vars

\* One goroutine drives one Base whose Buffer has any capacity 0..MaxSize.
InitBase ==
    /\ pbSize \in 0..MaxSize
    /\ NewBase
    /\ NoBuffer
    /\ NoSource
    /\ NoOpen
    /\ NewTask
    /\ NoDedup
    /\ NoPath
    /\ NoReproc
    /\ NoSwitch

NextBase ==
    \/ PutAppend /\ UNCHANGED notBaseVars
    \/ PutInc /\ UNCHANGED notBaseVars
    \/ PutReturnNil /\ UNCHANGED notBaseVars
    \/ PutHasBatch /\ UNCHANGED notBaseVars
    \/ FlushReset /\ UNCHANGED notBaseVars
    \/ MoveRows /\ UNCHANGED notBaseVars
    \/ SinkCommit /\ UNCHANGED notBaseVars
    \/ CommitDone /\ UNCHANGED notBaseVars
    \/ CommitFailed /\ UNCHANGED notBaseVars

SpecBase == InitBase /\ [][NextBase]_vars

\* One caller reads any archive of at most MaxEntries entries with NextTest;
\* the largest entries are oversize.
InitSource ==
    /\ archive \in Archives
    /\ maxSize = MaxEntrySize - 1
    /\ SourceIdle
    /\ NoBuffer
    /\ NoBase
    /\ NoOpen
    /\ NewTask
    /\ NoDedup
    /\ NoPath
    /\ NoReproc
    /\ NoSwitch

NextSource ==
    \/ CallNextTest /\ UNCHANGED notSrcVars
    \/ HeaderTrial /\ UNCHANGED notSrcVars
    \/ CheckHeader /\ UNCHANGED notSrcVars
    \/ DataTrial /\ UNCHANGED notSrcVars

SpecSource == InitSource /\ [][NextSource]_vars

\* NewETLSource is called with any of the uris and a nil or non-nil client;
\* a source that was returned is closed by its owner.
InitOpen ==
    /\ uri \in URIs
    /\ client \in BOOLEAN
    /\ OpenIdle
    /\ NoBuffer
    /\ NoBase
    /\ NoSource
    /\ NewTask
    /\ NoDedup
    /\ NoPath
    /\ NoReproc
    /\ NoSwitch

NextOpen ==
    \/ ValidateURI /\ UNCHANGED notOpenVars
    \/ GetReader /\ UNCHANGED notOpenVars
    \/ GzipNewReader /\ UNCHANGED notOpenVars
    \/ CallClose /\ UNCHANGED notOpenVars
    \/ CloseZipper /\ UNCHANGED notOpenVars
    \/ CloseRdr /\ UNCHANGED notOpenVars
    \/ CloseCancel /\ UNCHANGED notOpenVars

SpecOpen == InitOpen /\ [][NextOpen]_vars

\* One Task runs ProcessAllTests over any archive of at most MaxEntries
\* entries.
InitTask ==
    /\ archive \in Archives
    /\ maxSize = 0
    /\ SourceIdle
    /\ NewTask
    /\ NoBuffer
    /\ NoBase
    /\ NoOpen
    /\ NoDedup
    /\ NoPath
    /\ NoReproc
    /\ NoSwitch

NextTask ==
    \/ LoopNextTest /\ UNCHANGED notTaskVars
    \/ HandleTest /\ UNCHANGED notTaskVars
    \/ InsertRows /\ UNCHANGED notTaskVars

SpecTask == InitTask /\ [][NextTask]_vars

\* ProcessAllTests runs on: the loop takes its next step whenever it has
\* one. What the tar reader, the parser and the inserter return is free.
FairTask == WF_vars(NextTask)

SpecTaskLive == SpecTask /\ FairTask

NoOther ==
    /\ NoBuffer
    /\ NoBase
    /\ NoSource
    /\ NoOpen
    /\ NewTask

\* checkDetails is called with any two Details over Counts.
InitDetails ==
    /\ cdSrc \in Details
    /\ cdDest \in Details
    /\ cdRet = "none"
    /\ NoWarehouse
    /\ NoCopy
    /\ NoCheckAndDedup
    /\ NoTables
    /\ NoOther
    /\ NoPath
    /\ NoReproc
    /\ NoSwitch

NextDetails ==
    \/ CallCheckDetails /\ UNCHANGED <<notDdVars, tablesVars, whVars, copyVars, dedupVars>>

SpecDetails == InitDetails /\ [][NextDetails]_vars

\* The table names considered.
SrcNames ==
    {<<"n", "d", "t", "$", "2", "0", "1", "6", "0", "1", "2", "6">>,
     <<"n", "d", "t", "_", "2", "0", "1", "6", "0", "1", "2", "6">>,
     <<"n", "d", "t", "_", "2", "0", "1", "6">>,
     <<"a", "_", "b", "$", "2", "0", "1", "6", "0", "1", "2", "6">>}

DestNames ==
    {<<"n", "d", "t">>,
     <<"n", "d", "t", "_", "x">>}

\* SanityCheckAndCopy is called for any source table and destination name;
\* tables that exist hold any rows. The job ends, and ctx is cancelled, at
\* any time.
InitCopy ==
    /\ cpSrc \in {Table("batch", n) : n \in SrcNames}
    /\ cpDestDataset = "base"
    /\ cpDestName \in DestNames
    /\ cpPc = "tables"
    /\ CopyIdle
    /\ now = 1
    /\ \E S \in SUBSET {cpSrc} : wh \in [S -> [rows : Contents, LastModified : {0}]]
    /\ NoDetails
    /\ NoCheckAndDedup
    /\ NoTables
    /\ NoOther
    /\ NoPath
    /\ NoReproc
    /\ NoSwitch

NextCopy ==
    \/ CopyTables /\ UNCHANGED <<notDdVars, tablesVars, detailVars, dedupVars>>
    \/ CopierRun /\ UNCHANGED <<notDdVars, tablesVars, detailVars, dedupVars>>
    \/ Poll /\ UNCHANGED <<notDdVars, tablesVars, detailVars, dedupVars>>
    \/ Sleep /\ UNCHANGED <<notDdVars, tablesVars, detailVars, dedupVars>>
    \/ JobEnds /\ UNCHANGED <<notDdVars, tablesVars, detailVars, dedupVars>>
    \/ CancelCtx /\ UNCHANGED <<notDdVars, tablesVars, detailVars, dedupVars>>

SpecCopy == InitCopy /\ [][NextCopy]_vars

\* The steps of SanityCheckAndCopy and WaitForJob are taken as long as
\* they are possible; the job and the owner of ctx are free.
FairCopy ==
    /\ WF_vars(CopyTables /\ UNCHANGED <<notDdVars, tablesVars, detailVars, dedupVars>>)
    /\ WF_vars(CopierRun /\ UNCHANGED <<notDdVars, tablesVars, detailVars, dedupVars>>)
    /\ WF_vars(Poll /\ UNCHANGED <<notDdVars, tablesVars, detailVars, dedupVars>>)
    /\ WF_vars(Sleep /\ UNCHANGED <<notDdVars, tablesVars, detailVars, dedupVars>>)

SpecCopyLive == SpecCopy /\ FairCopy

\* The state of a table: whether it exists, its rows, its LastModified.
TableStates(rowss, times) ==
    {[exists |-> FALSE, rows |-> Empty, LastModified |-> 0]}
        \cup [exists : {TRUE}, rows : rowss, LastModified : times]

\* The warehouse in which the tables of K are in the states st[k].
Warehouse(K, st) ==
    [k \in {x \in K : st[x].exists} |->
        [rows |-> st[k].rows, LastModified |-> st[k].LastModified]]

\* The tables a run of CheckAndDedup(info, dest) can touch.
TablesOf(info, dest) ==
    LET srcParts == getTableParts(info.Name).parts
    IN  {Table(SrcDataset, info.Name),
         Table(SrcDataset, srcParts.prefix \o <<"$">> \o srcParts.yyyymmdd),
         dest}

\* The warehouses a run is started in. The source holds the first test up
\* to MaxDup times and the second at most once; the intermediate partition, written by Dedup_Alpha only, and the destination,
\* written by copies of intermediate partitions only, hold no row twice;
\* the destination is older than, as old as, or newer than the source.
Warehouses(info, dest, opts) ==
    LET src == Table(SrcDataset, info.Name)
        K == TablesOf(info, dest)
    IN  {Warehouse(K, st) :
            st \in {f \in [K -> TableStates(Contents, {1, 2, 3})] :
                       /\ f[src].LastModified \in {0, info.LastModifiedTime}
                       /\ f[src].rows["t2"] <= 1
                       /\ \A k \in K \ {src} : f[k].rows = Distinct(f[k].rows)
                       /\ \A k \in K \ {src, dest} : f[k].LastModified \in {0, 1}
                       /\ opts.IgnoreDestAge => f[dest].LastModified \in {0, 1}}}

\* The arguments of CheckAndDedup considered: a source table and a
\* destination that pass the checks of the names, and one pair for each
\* check that fails.
DedupArguments ==
    {<<<<"n", "d", "t", "_", "2", "0", "1", "6", "0", "1", "2", "6">>, Table("base", <<"n", "d", "t", "$", "2", "0", "1", "6", "0", "1", "2", "6">>)>>,
     <<<<"n", "d", "t", "$", "2", "0", "1", "6", "0", "1", "2", "6">>, Table("base", <<"n", "d", "t", "$", "2", "0", "1", "6", "0", "1", "2", "6">>)>>,
     <<<<"n", "d", "t", "_", "2", "0", "1", "6">>, Table("base", <<"n", "d", "t", "$", "2", "0", "1", "6", "0", "1", "2", "6">>)>>,
     <<<<"n", "d", "t", "_", "2", "0", "1", "6", "0", "1", "2", "6">>, Table("batch", <<"n", "d", "t", "$", "2", "0", "1", "6", "0", "1", "2", "6">>)>>,
     <<<<"n", "d", "t", "_", "2", "0", "1", "6", "0", "1", "2", "6">>, Table("base", <<"n", "d", "t">>)>>,
     <<<<"n", "d", "t", "_", "2", "0", "1", "6", "0", "1", "2", "6">>, Table("base", <<"n", "d", "t", "$", "2", "0", "1", "6", "0", "1", "2", "7">>)>>,
     <<<<"a", "_", "b", "_", "2", "0", "1", "6", "0", "1", "2", "6">>, Table("base", <<"n", "d", "t", "$", "2", "0", "1", "6", "0", "1", "2", "6">>)>>}

\* CheckAndDedup is called with any options on a source that is old
\* enough, and with none on a source that is too recent for one more tick.
\* When the checks of the names fail, the warehouse is not looked at.
InitDedup ==
    /\ now = 3
    /\ \E a \in DedupArguments :
          /\ srcInfo = TableInfo(a[1], 2)
          /\ destTable = a[2]
    /\ options \in {Options(1, i, d, c) : i, d, c \in BOOLEAN}
                      \cup {Options(2, FALSE, FALSE, FALSE)}
    /\ wh \in IF getTableParts(srcInfo.Name).err = "nil"
                  /\ Preconditions(srcInfo, destTable, Options(0, FALSE, FALSE, FALSE)) = "nil"
               THEN Warehouses(srcInfo, destTable, options)
               ELSE {<<>>}
    /\ wh0 = wh
    /\ runs = 1
    /\ firstRet = "none"
    /\ firstWh = <<>>
    /\ ddPc = "start"
    /\ ddRet = "none"
    /\ DedupLocals
    /\ NoTables
    /\ NoCopy
    /\ NoDetails
    /\ NoOther
    /\ NoPath
    /\ NoReproc
    /\ NoSwitch

NextDedup ==
    \/ CheckTables /\ UNCHANGED <<notDdVars, tablesVars, detailVars>>
    \/ SrcMetadata /\ UNCHANGED <<notDdVars, tablesVars, detailVars>>
    \/ CheckDestAge /\ UNCHANGED <<notDdVars, tablesVars, detailVars>>
    \/ GetDetails /\ UNCHANGED <<notDdVars, tablesVars, detailVars>>
    \/ SanityCheck /\ UNCHANGED <<notDdVars, tablesVars, detailVars>>
    \/ DedupAlpha /\ UNCHANGED <<notDdVars, tablesVars, detailVars>>
    \/ Recheck /\ UNCHANGED <<notDdVars, tablesVars, detailVars>>
    \/ CopyTables /\ UNCHANGED <<notDdVars, tablesVars, detailVars, dedupVars>>
    \/ CopierRun /\ UNCHANGED <<notDdVars, tablesVars, detailVars, dedupVars>>
    \/ Poll /\ UNCHANGED <<notDdVars, tablesVars, detailVars, dedupVars>>
    \/ Sleep /\ UNCHANGED <<notDdVars, tablesVars, detailVars, dedupVars>>
    \/ JobEnds /\ UNCHANGED <<notDdVars, tablesVars, detailVars, dedupVars>>
    \/ CopyReturns /\ UNCHANGED <<notDdVars, tablesVars, detailVars>>
    \/ Rerun /\ UNCHANGED <<notDdVars, tablesVars, detailVars>>

SpecDedup == InitDedup /\ [][NextDedup]_vars

\* The names of the tables of the source dataset: two templated tables
\* of the pattern, one of the pattern without a date, one of another
\* pattern.
TableNames ==
    {<<"n", "d", "t", "_", "2", "0", "1", "6", "0", "1", "2", "6">>,
     <<"n", "d", "t", "_", "2", "0", "1", "6", "0", "1", "2", "7">>,
     <<"n", "d", "t", "_", "2", "0", "1", "6">>,
     <<"w", "e", "b", "_", "2", "0", "1", "6", "0", "1", "2", "6">>}

\* ProcessTablesMatching is called on a dataset that holds any of the
\* tables, each modified at any time before now.
InitTables ==
    /\ now = MaxNow - 1
    /\ \E S \in SUBSET TableNames :
          \E f \in [S -> 1..(MaxNow - 1)] :
             dsTables = {TableInfo(n, f[n]) : n \in S}
    /\ srcPattern \in {<<"n", "d", "t", "_", "2", "0", "1", "6">>, <<"n", "d", "t">>}
    /\ destBase \in {<<"n", "d", "t">>, <<"n", "d", "t", "_", "x">>}
    /\ options \in {Options(m, FALSE, FALSE, FALSE) : m \in {1, 2}}
    /\ ptInfo = <<>>
    /\ ptI = 0
    /\ ptPc = "start"
    /\ ptRet = "none"
    /\ ptLog = <<>>
    /\ srcInfo = TableInfo(<<>>, 0)
    /\ destTable = NilTable
    /\ ddPc = "idle"
    /\ ddRet = "none"
    /\ DedupLocals
    /\ wh0 = <<>>
    /\ runs = 0
    /\ firstRet = "none"
    /\ firstWh = <<>>
    /\ wh = <<>>
    /\ NoCopy
    /\ NoDetails
    /\ NoOther
    /\ NoPath
    /\ NoReproc
    /\ NoSwitch

NextTables ==
    \/ ListTables /\ UNCHANGED <<notDdVars, detailVars, copyVars, dedupVars, wh>>
    \/ ProcessTable /\ UNCHANGED <<notDdVars, detailVars, copyVars, dedupVars, wh>>
    \/ TablesDone /\ UNCHANGED <<notDdVars, detailVars, copyVars, dedupVars, wh>>

SpecTables == InitTables /\ [][NextTables]_vars

\* ValidateTestPath is called with any of the Paths.
InitPath ==
    /\ path \in Paths
    /\ vtpRet = NoPathReturn
    /\ NoReproc
    /\ NoSwitch
    /\ NoOther
    /\ NoDedup

NextPath ==
    \/ CallValidateTestPath /\ UNCHANGED notPathVars

SpecPath == InitPath /\ [][NextPath]_vars

\* The reprocessing command is run for a month of at most NumDays days with
\* at most MaxFiles files each.
InitReproc ==
    /\ NoReproc
    /\ NoSwitch
    /\ NoOther
    /\ NoDedup
    /\ path = <<>>
    /\ vtpRet = NoPathReturn

NextReproc ==
    \/ MonthNext /\ UNCHANGED notReprocVars
    \/ MonthWait /\ UNCHANGED notReprocVars
    \/ \E d \in Days : PostDayNext(d) /\ UNCHANGED notReprocVars
    \/ \E d \in Days : PostDayNoObject(d) /\ UNCHANGED notReprocVars
    \/ \E d \in Days : PostOne(d) /\ UNCHANGED notReprocVars
    \/ \E d \in Days : PostDayCount(d) /\ UNCHANGED notReprocVars
    \/ \E d \in Days : PostDayPanic(d) /\ UNCHANGED notReprocVars

SpecReproc == InitReproc /\ [][NextReproc]_vars

\* ParseAndInsert is called for a file of any name and archive date, with at
\* most MaxObjects objects.
InitSwitch ==
    /\ testName \in TestNames
    /\ archiveDate \in ArchiveDates
    /\ swPc = "decode"
    /\ SwitchLocals
    /\ NoOther
    /\ NoDedup
    /\ NoPath
    /\ NoReproc

NextSwitch ==
    \/ Decode /\ UNCHANGED notSwitchVars
    \/ SortRows /\ UNCHANGED notSwitchVars
    \/ PutRow /\ UNCHANGED notSwitchVars
    \/ SwitchReturn /\ UNCHANGED notSwitchVars

SpecSwitch == InitSwitch /\ [][NextSwitch]_vars

\* ------------------------------------------------------------------------
\* Properties of row.Buffer
\* ------------------------------------------------------------------------

\* The rows of a sequence, as a set.
Range(s) == {s[i] : i \in 1..Len(s)}

\* Number of positions of s that hold x.
Count(s, x) == Cardinality({i \in 1..Len(s) : s[i] = x})

\* The slice fixed as return value by a call that has not returned yet.
InFlight ==
    IF \E g \in Goroutines : gpc[g] = "unlock"
    THEN gres[CHOOSE g \in Goroutines : gpc[g] = "unlock"]
    ELSE <<>>

\* C1: a Buffer created with capacity N never holds more than N rows,
\* for every N >= 0 (N = 0 included).
BufferWithinCapacity == Len(bufRows) <= bufSize

\* C2: the slices returned by Append and Reset, concatenated in order of
\* return, followed by what the buffer still holds, are the appended rows in
\* the order of appending; after a final Reset the returned slices alone are
\* the appended rows.
AppendResetConcatenation ==
    /\ handed \o InFlight \o bufRows = appended
    /\ (\A g \in Goroutines : gpc[g] = "idle") /\ bufRows = <<>>
          => handed = appended

\* C2 witness: more rows than the capacity were appended (so an Append
\* returned a full batch) and a final Reset has returned the rest.
AppendResetConcatenationWitness ==
    /\ \A g \in Goroutines : gpc[g] = "idle"
    /\ bufSize >= 1
    /\ Len(appended) > bufSize
    /\ bufRows = <<>>
    /\ Len(handed) = Len(appended)

\* C3: under every interleaving, each appended row is in exactly one place:
\* one caller's returned slices, the slice a call is about to return, or
\* the buffer; hence no two callers are handed the same row.
BufferThreadSafe ==
    \A r \in Range(appended) :
        LET places == [g \in Goroutines |-> Count(got[g], r) + Count(gres[g], r)]
            Sum[k \in 0..NumGoroutines] ==
                IF k = 0 THEN 0 ELSE places[k] + Sum[k - 1]
        IN Sum[NumGoroutines] + Count(bufRows, r) = 1

\* C3 witness: goroutine 1 was already handed rows and now waits for the
\* mutex, which goroutine 2 holds while returning a batch.
BufferThreadSafeWitness ==
    /\ got[1] # <<>>
    /\ gpc[1] = "lock"
    /\ bufLock = 2
    /\ gpc[2] = "unlock"
    /\ gres[2] # <<>>

\* ------------------------------------------------------------------------
\* Properties of row.ActiveStats and row.Base
\* ------------------------------------------------------------------------

\* C4: with one goroutine calling Put and Flush, and a sink that reports a
\* count between 0 and the batch length, no counter is ever negative (also
\* between the steps of a call).
StatsNonNegative ==
    /\ stats.Buffered >= 0
    /\ stats.Pending >= 0
    /\ stats.Committed >= 0
    /\ stats.Failed >= 0

\* C4 witness: a commit that succeeded in part and reported an error has
\* been accounted for.
StatsNonNegativeWitness ==
    /\ pbPc = "idle"
    /\ pbDone > 0
    /\ pbDone < Len(pbBatch)
    /\ pbErr \in SinkErrors
    /\ stats.Committed > 0
    /\ stats.Failed > 0

\* C5: Total() never decreases; Inc raises it by exactly one, MoveToPending
\* and Done leave it unchanged; after every Put and Flush it is the number
\* of rows Put.
TotalCountsPuts ==
    /\ [][/\ Total(stats') >= Total(stats)
          /\ pbPc = "inc" => Total(stats') = Total(stats) + 1
          /\ pbPc \in {"move", "done", "failed"} => Total(stats') = Total(stats)
         ]_vars
    /\ [](pbPc = "idle" => Total(stats) = Len(puts))

\* C5 witness: a Flush has returned after a failed commit, and earlier Puts
\* committed rows.
TotalCountsPutsWitness ==
    /\ pbPc = "idle"
    /\ pbOp = "Flush"
    /\ pbErr \in SinkErrors
    /\ stats.Failed > 0
    /\ stats.Committed > 0
    /\ Total(stats) = MaxRows

\* C6: after every Put and every Flush no row is left in Pending, also when
\* the sink reported partial success with a nil error.
PendingZeroAfterCall == pbPc = "idle" => stats.Pending = 0

\* C7: Put and Flush return a non-nil error exactly when the Commit they
\* made returned an error; that error is an ErrCommitRow that unwraps to the
\* sink's error; a Put that made no Commit returns nil.
PutFlushError ==
    (pbPc = "idle" /\ pbOp # "none") =>
        /\ (pbRet # NilError) <=> (pbCallErr \in SinkErrors)
        /\ pbRet # NilError =>
              (pbRet.kind = "ErrCommitRow" /\ Unwrap(pbRet) = pbCallErr)
        /\ pbCallErr = "none" => pbRet = NilError

\* C7 witness: a Put flushed a batch, the sink failed, Put returned the
\* wrapped error.
PutFlushErrorWitness ==
    /\ pbPc = "idle"
    /\ pbOp = "Put"
    /\ pbCallErr = "sinkErr2"
    /\ pbRet.kind = "ErrCommitRow"

\* The batch the call in progress holds and has not yet passed to Commit.
Uncommitted ==
    IF pbPc \in {"inc", "check", "move", "commit"} THEN pbBatch ELSE <<>>

\* C8: the batches passed to Commit, concatenated, followed by the rows not
\* yet passed, are the rows Put in Put order; after a Flush the batches
\* passed to Commit are exactly the rows Put, each once.
CommitOrder ==
    /\ commits \o Uncommitted \o pbRows = puts
    /\ (pbPc = "idle" /\ pbOp = "Flush") => commits = puts

\* C8 witness: Puts passed at least one full batch to Commit, a commit
\* failed, and the final Flush passed the rest.
CommitOrderWitness ==
    /\ pbPc = "idle"
    /\ pbOp = "Flush"
    /\ pbSize >= 1
    /\ Len(puts) > pbSize
    /\ Len(commits) = Len(puts)
    /\ Len(pbBatch) >= 1
    /\ stats.Failed > 0

\* ------------------------------------------------------------------------
\* Properties of storage.ETLSource
\* ------------------------------------------------------------------------

\* The names 1..n in order.
Names(n) == [i \in 1..n |-> i]

\* C9: the entries NextTest has returned are the first entries of the
\* archive in tar order, each once (the entry whose header was just read is
\* returned by the call in progress); NextTest returns EOF only when every
\* entry was returned, and a call that returns no entry and no storage error
\* returns EOF; header reads that fail and are retried change none of this.
NextTestOrder ==
    /\ returned = Names(IF ntPc \in {"check", "body"} THEN tarPos - 1 ELSE tarPos)
    /\ ntPc \in {"check", "body"} => hdr = tarPos
    /\ (ntPc = "idle" /\ ntRet.err = "EOF") =>
          /\ ntRet.name = 0
          /\ returned = Names(Len(archive))
    /\ (ntPc = "idle" /\ hdrReads > 0 /\ ntRet.name = 0
           /\ ntRet.err \notin StorageErrors) =>
          (ntRet.err = "EOF" /\ tarPos = Len(archive))

\* C9 witness: the second entry was returned by a call whose header read
\* failed three times before it succeeded, after an earlier call gave up.
NextTestOrderWitness ==
    /\ ntPc = "idle"
    /\ Len(archive) = 2
    /\ ntRet.name = 2
    /\ hdrReads = 4
    /\ returned = <<1, 2>>

\* C10: an entry whose header size exceeds maxSize is returned as
\* (name, nil, OversizeFile), and the call reads nothing of its body.
OversizeSkipped ==
    (ntPc = "idle" /\ ntRet.name # 0 /\ archive[ntRet.name].size > maxSize) =>
        /\ ntRet = Return(ntRet.name, NilData, "Oversize file")
        /\ bodyReads = 0
        /\ bodyPos = 0

\* C10 witness: a regular oversize entry was returned, after a header retry.
OversizeSkippedWitness ==
    /\ ntPc = "idle"
    /\ ntRet.name = 2
    /\ archive[2].size > maxSize
    /\ archive[2].typeflag = "reg"
    /\ hdrReads = 2
    /\ ntRet.err = "Oversize file"

\* C11 (as claimed): every entry that is not a regular file, whatever its
\* header size, is returned as (name, nil, nil), and the call reads no body.
NonRegularSkipped ==
    (ntPc = "idle" /\ ntRet.name # 0 /\ archive[ntRet.name].typeflag # "reg") =>
        /\ ntRet = Return(ntRet.name, NilData, "nil")
        /\ bodyReads = 0
        /\ bodyPos = 0

\* C11 (amended): an entry that is not a regular file is returned with nil
\* data and no body read; its error is nil when its header size is at most
\* maxSize, and OversizeFile when the size exceeds maxSize, because the size
\* is checked before the type.
NonRegularSkippedUnlessOversize ==
    (ntPc = "idle" /\ ntRet.name # 0 /\ archive[ntRet.name].typeflag # "reg") =>
        /\ ntRet.data = NilData
        /\ ntRet.err = IF archive[ntRet.name].size > maxSize
                       THEN "Oversize file" ELSE "nil"
        /\ bodyReads = 0
        /\ bodyPos = 0

\* C11 witness: a non-regular entry with a body within maxSize was returned
\* with a nil error.
NonRegularSkippedWitness ==
    /\ ntPc = "idle"
    /\ ntRet.name = 2
    /\ archive[2].typeflag = "dir"
    /\ archive[2].size = maxSize
    /\ archive[2].size > 0
    /\ ntRet.err = "nil"

\* C12: one call of NextTest makes at most 10 header reads and at most 10
\* body reads; with trial bounded, a call takes at most 21 steps.
AttemptsBounded ==
    /\ hdrReads <= 10
    /\ bodyReads <= 10
    /\ trial <= 10
    /\ Len(sleeps) <= 9

\* C12 witness: a call returned after the header read failed 9 times and
\* the body read failed 10 times.
AttemptsBoundedWitness ==
    /\ ntPc = "idle"
    /\ hdrReads = 10
    /\ bodyReads = 10
    /\ ntErr \in StorageErrors

\* C13: when a retry loop gives up, NextTest returns the error of the last
\* attempt, in the header phase and in the body phase.
GiveUpReturnsError ==
    (ntPc = "idle" /\ hdrReads > 0 /\ ntErr # "nil") => ntRet.err = ntErr

\* C14: a header read failing with "unexpected EOF" ends the call: the
\* error is returned after that single attempt, with no further header read.
UnexpectedEOFTerminal ==
    (hdrReads > 0 /\ bodyReads = 0 /\ hdr = 0 /\ ntErr = "unexpected EOF") =>
        /\ ntPc = "idle"
        /\ hdrReads = 1
        /\ ntRet.err = "unexpected EOF"

\* ------------------------------------------------------------------------
\* Properties of storage.NewETLSource and storage.Closer
\* ------------------------------------------------------------------------

\* What Closer.Close has to release, in order.
ToRelease == IF zipper THEN <<"zipper", "rdr", "cancel">> ELSE <<"rdr", "cancel">>

\* C15: Closer.Close releases the gzip reader (when there is one), then the
\* object reader, then the cancellation, in that order, and when it has
\* returned all of them are released, also when closing the gzip reader
\* returned an error.
CloseOrder ==
    /\ rdrState # "none" =>
          (Len(releases) <= Len(ToRelease)
             /\ releases = SubSeq(ToRelease, 1, Len(releases)))
    /\ (opPc = "closed" \/ (opPc = "failed" /\ closeCaller = "NewETLSource")) =>
          /\ releases = ToRelease
          /\ rdrState = "closed"
          /\ ctxState = "cancelled"
          /\ zipper => zipState = "closed"

\* C15 witness: Close has returned the error of the gzip reader's Close,
\* after releasing all three.
CloseOrderWitness ==
    /\ opPc = "closed"
    /\ zipper
    /\ closeErr = "closeErr"
    /\ releases = <<"zipper", "rdr", "cancel">>

\* gs://<bucket>/<path> with a path ending in .tar, .tgz or .tar.gz.
WellFormedURI(u) ==
    /\ HasPrefix(u, GsPrefix)
    /\ \E i \in 6..Len(u) :
          /\ u[i] = "/"
          /\ \A j \in 6..i - 1 : u[j] # "/"
          /\ \E x \in TarSuffixes : HasSuffix(SubSeq(u, i + 1, Len(u)), x)

\* C16: when NewETLSource returns an error nothing stays acquired: a uri of
\* another form than gs://bucket/path with a tar suffix (or a nil client) is
\* rejected before a context or a reader exists, and after a failed open or
\* a failed gzip header no reader is open and the cancellation was called.
OpenFailureLeaksNothing ==
    /\ opPc = "failed" =>
          /\ opErr # "nil"
          /\ rdrState \in {"none", "closed"}
          /\ zipState \in {"none", "closed"}
          /\ ctxState \in {"none", "cancelled"}
    /\ (~WellFormedURI(uri) \/ ~client) =>
          /\ opPc \in {"start", "failed"}
          /\ rdrState = "none"
          /\ ctxState = "none"
    /\ (opPc = "failed" /\ WellFormedURI(uri) /\ client) => ctxState = "cancelled"

\* C16 witness: the object was opened, the gzip header was bad, and
\* NewETLSource returned that error with reader closed and context cancelled.
OpenFailureLeaksNothingWitness ==
    /\ opPc = "failed"
    /\ opErr = "gzip: invalid header"
    /\ rdrState = "closed"
    /\ ctxState = "cancelled"

\* The calls of op the task made, in order.
CallsOf(op) == SelectSeq(taskCalls, LAMBDA c : c.op = op)

\* The names the parser's HandleTest was called with, in order.
Handled == [i \in 1..Len(CallsOf("HandleTest")) |-> CallsOf("HandleTest")[i].name]

\* C18 (as claimed): once the storage layer has returned an error other than
\* io.EOF, ProcessAllTests has stopped reading the archive.
StorageErrorStopsTask ==
    taskRet.err \notin {"nil", "EOF"} => taskPc = "done"

FlushThenCloseOnEOF ==
    taskPc = "done" =>
        /\ Len(taskCalls) >= 2
        /\ taskCalls[Len(taskCalls) - 1].op = "Flush"
        /\ taskCalls[Len(taskCalls)].op = "Close"
        /\ Len(CallsOf("Flush")) = 1
        /\ Len(CallsOf("Close")) = 1

\* ------------------------------------------------------------------------
\* Package dedup
\* ------------------------------------------------------------------------

\* The two sanity predicates, in exact arithmetic.
EnoughTasks(srcD, destD) ==
    100 * srcD.TaskFileCount >= 99 * destD.TaskFileCount

EnoughTests(srcD, destD) ==
    100 * srcD.TestCount >= 95 * destD.TestCount

\* C22 (as claimed): checkDetails returns nil iff src has at least 99% of
\* the task files and at least 95% of the tests of dest; it returns
\* TooFewTasks whenever the task predicate fails and TooFewTests when only
\* the test predicate fails.
CheckDetailsExact ==
    cdRet # "none" =>
        cdRet = IF ~EnoughTasks(cdSrc, cdDest) THEN "Too few tasks"
                ELSE IF ~EnoughTests(cdSrc, cdDest) THEN "Too few tests"
                ELSE "nil"

\* ------------------------------------------------------------------------
\* etl.ValidateTestPath
\* ------------------------------------------------------------------------

\* A YYYY/MM/DD date path without its slashes.
Packed(dp) == SelectSeq(dp, LAMBDA c : c # "/")

\* C30 (as claimed): a DataPath returned by ValidateTestPath has a
\* PackedDate that is the calendar day of its DatePath.
PackedDateMatchesDatePath ==
    (vtpRet.err = "nil") => vtpRet.dp.PackedDate = Packed(vtpRet.dp.DatePath)

\* ------------------------------------------------------------------------
\* dedup.WaitForJob
\* ------------------------------------------------------------------------

WaitForJobReturned == cpPc = "done" /\ wjCtx # "none"

\* C27: WaitForJob returns only when the job is terminal or a poll failed:
\* nil when the job finished without error, the job's error when it has
\* one, the error of the status call when the poll failed; and once the job
\* is terminal, WaitForJob eventually returns.
WaitForJobReturns ==
    /\ [](WaitForJobReturned =>
            \/ cpRet = "nil" /\ jobState = "done"
            \/ cpRet = "job error" /\ jobState = "failed"
            \/ cpRet = "status error" /\ polled = "status error")
    /\ (jobState \in {"done", "failed"}) ~> WaitForJobReturned

WaitForJobReturnsWitness ==
    /\ WaitForJobReturned
    /\ cpRet = "job error"
    /\ backoff >= MaxBackoff

\* C28 (as claimed): a poll made after the caller's ctx was cancelled ends
\* the wait with the context's error.
CancelEndsWait ==
    [][(ctxDone /\ cpPc = "poll" /\ cpPc' # "poll") => cpRet' = "context canceled"]_vars


\* ------------------------------------------------------------------------
\* dedup.CheckAndDedup
\* ------------------------------------------------------------------------

\* The gates of CheckAndDedup, as the run evaluated them.
SuffixValid == getTableParts(srcInfo.Name).err = "nil"

SrcOldEnough == now - srcInfo.LastModifiedTime >= options.MinSrcAge

DatasetsDiffer == destTable.DatasetID # SrcDataset

DatesEqual ==
    /\ SuffixValid
    /\ getTableParts(destTable.TableID).err = "nil"
    /\ getTableParts(destTable.TableID).parts.yyyymmdd
          = getTableParts(srcInfo.Name).parts.yyyymmdd

DestAgeChecked == ~options.IgnoreDestAge /\ destLastModified # NotFetched

DestNewer == DestAgeChecked /\ srcInfo.LastModifiedTime < destLastModified

PreChecked == srcDetail # NoDetail /\ destDetail # NoDetail

PreCheckHeld == PreChecked /\ checkDetails(srcDetail, destDetail) = "nil"

PostChecked == dedupDetail # NoDetail

PostCheckHeld == PostChecked /\ checkDetails(dedupDetail, destDetail) = "nil"

\* SanityCheckAndCopy was called.
CopyStarted == cpPc # "idle"

AllGatesHeld ==
    /\ SuffixValid
    /\ SrcOldEnough
    /\ DatasetsDiffer
    /\ DatesEqual
    /\ options.IgnoreDestAge \/ (DestAgeChecked /\ ~DestNewer)
    /\ PreCheckHeld
    /\ PostCheckHeld

\* A gate that comes before the dedup query failed.
PreGateFailed ==
    \/ ~SuffixValid
    \/ ~SrcOldEnough
    \/ ~DatasetsDiffer
    \/ ~DatesEqual
    \/ DestNewer
    \/ PreChecked /\ ~PreCheckHeld

GateFailed == PreGateFailed \/ (PostChecked /\ ~PostCheckHeld)

\* C21: the copy is started only after every gate held (suffix, age of the
\* source, datasets, dates, age of the destination unless IgnoreDestAge,
\* sanity before and after the dedup); a run in which a gate failed returns
\* an error, has started no copy and, when the gate comes before the dedup,
\* no dedup.
CopyOnlyAfterAllGates ==
    /\ CopyStarted => AllGatesHeld
    /\ (ddPc = "done" /\ GateFailed) =>
          /\ ddRet \notin {"nil", "none"}
          /\ ~CopyStarted
          /\ PreGateFailed => dedups = 0

CopyOnlyAfterAllGatesWitness ==
    /\ ddPc = "done"
    /\ ddRet = "nil"
    /\ jobState = "done"
    /\ ~options.IgnoreDestAge
    /\ dedups = 1
    /\ AllGatesHeld

\* C23 (as claimed): with the age of the destination checked, the run goes
\* on only when the destination was modified strictly before the source,
\* and otherwise, equal times included, returns ErrSrcOlderThanDest with
\* no dedup and no copy.
DestMustBeStrictlyOlder ==
    DestAgeChecked =>
        IF destLastModified < srcInfo.LastModifiedTime
        THEN ddRet # "Source older than destination partition"
        ELSE /\ ddPc = "done"
             /\ ddRet = "Source older than destination partition"
             /\ dedups = 0
             /\ ~CopyStarted

\* C24: a DryRun starts no dedup and no copy and leaves every table as it
\* was; it returns nil exactly when the checks before the dedup held.
DryRunChangesNothing ==
    options.DryRun =>
        /\ dedups = 0
        /\ ~CopyStarted
        /\ wh = wh0
        /\ ddPc = "done" =>
              (ddRet = "nil" <=>
                  /\ ~PreGateFailed
                  /\ options.IgnoreDestAge \/ DestAgeChecked
                  /\ PreCheckHeld)

DryRunChangesNothingWitness ==
    /\ options.DryRun
    /\ ~options.CopyOnly
    /\ ddPc = "done"
    /\ ddRet = "nil"
    /\ runs = 1
    /\ LET rows == wh[Table(SrcDataset, srcInfo.Name)].rows
       IN  Distinct(rows) # rows

\* C25: without DryRun, CopyOnly runs no dedup query, and the copy starts
\* only after the sanity check of the intermediate partition against the
\* destination held; without CopyOnly the dedup query runs exactly once
\* before that check.
CopyOnlySkipsDedup ==
    ~options.DryRun =>
        /\ PostChecked => dedupDetail = GetTableDetail(wh, dedupTable)
        /\ options.CopyOnly =>
              /\ dedups = 0
              /\ CopyStarted => PostCheckHeld
        /\ ~options.CopyOnly =>
              /\ dedups <= 1
              /\ PostChecked => dedups = 1

CopyOnlySkipsDedupWitness ==
    /\ options.CopyOnly
    /\ ~options.DryRun
    /\ ddPc = "done"
    /\ ddRet = "nil"
    /\ jobState = "done"
    /\ runs = 1
    /\ wh[dedupTable].rows # Distinct(wh[Table(SrcDataset, srcInfo.Name)].rows)

\* The rows of a table of the warehouse w.
RowsOf(w, table) == IF table \in DOMAIN w THEN w[table].rows ELSE Empty

\* The copy target of the run.
CopyTarget ==
    Table(destTable.DatasetID,
          getTableParts(destTable.TableID).parts.prefix \o <<"$">>
              \o getTableParts(srcInfo.Name).parts.yyyymmdd)

SecondRunDone == runs = 2 /\ ddPc = "done" /\ jobState # "running"

CallErrors == {"query error", "run error", "status error", "job error"}

TablesOldestFirst ==
    /\ \A i, j \in DOMAIN ptLog :
          i < j =>
             /\ ptLog[i].info.LastModifiedTime <= ptLog[j].info.LastModifiedTime
             /\ ptLog[i].info # ptLog[j].info
    /\ \A i \in DOMAIN ptLog :
          /\ \E k \in 1..ptI : k <= Len(ptInfo) /\ ptInfo[k] = ptLog[i].info
          /\ ptLog[i].ret # "nil" =>
                /\ i = Len(ptLog)
                /\ ptPc = "done"
                /\ ptRet = ptLog[i].ret

TablesOldestFirstWitness ==
    /\ ptPc = "done"
    /\ ptRet = "dedup error"
    /\ Len(ptLog) = 1
    /\ ptI < Len(ptInfo)
    /\ now - ptInfo[ptI + 1].LastModifiedTime >= options.MinSrcAge

\* ------------------------------------------------------------------------
\* etl.ValidateTestPath: the messages
\* ------------------------------------------------------------------------

\* The pieces a path of Paths is made of.
PathPieces ==
    {p \in PathStarts \X PathDates \X PathTimes \X PathPods \X PathExps \X PathSuffixes :
        p[1] \o p[2] \o p[3] \o p[4] \o p[5] \o p[6] = path}

\* The pieces that are as a task file name has them.
DatePathOk(d) == Len(d) = 11 /\ d[5] = "/" /\ d[8] = "/" /\ d[11] = "/"
PodOk(d) == Len(d) = 13
SuffixOk(f) == f \in TarSuffixes

\* C31 (as claimed): a path with the gs:// start, a tar suffix and a
\* host/pod token that is rejected for its date path gets a message about
\* the date path, not the overall one.
DatePathHasItsOwnMessage ==
    \A p \in PathPieces :
        (/\ vtpRet.err \notin {"none", "nil"}
         /\ HasPrefix(path, GsPrefix) /\ SuffixOk(p[6]) /\ PodOk(p[4])
         /\ ~DatePathOk(p[2])) =>
            vtpRet.err # "Invalid test path"

\* C31: the message of a rejected path names the first part at fault in
\* the order start, suffix, host/pod token; every other rejection, that of
\* a malformed date path too, gets the overall message.
MessageNamesFailedPart ==
    \A p \in PathPieces :
        vtpRet.err \notin {"none", "nil"} =>
            vtpRet.err =
                IF ~HasPrefix(path, GsPrefix) THEN "Path should begin with gs://.../.../"
                ELSE IF ~SuffixOk(p[6]) THEN "Path should end in .tar, .tgz, or .tar.gz"
                ELSE IF ~PodOk(p[4]) THEN "Path should contain -mlabN-podNN"
                ELSE "Invalid test path"

MessageNamesFailedPartWitness ==
    /\ vtpRet.err = "Invalid test path"
    /\ \E p \in PathPieces : ~DatePathOk(p[2])

\* ------------------------------------------------------------------------
\* The reprocessing command
\* ------------------------------------------------------------------------

\* C32 (as claimed): no file is posted once 10 errors have been counted.
NoPostAfterTenErrors == postedAt < MaxErrors

\* ------------------------------------------------------------------------
\* parser.SwitchParser
\* ------------------------------------------------------------------------

\* The timestamp of a row.
TimestampOf(row) == row.ID[3]

StrictlyBetween == {Date(2020, 9, 10), Date(2021, 6, 1), Date(2022, 1, 18)}

\* C34: in a row that was Put, the delta and the counter of
\* switch.octets.local.tx and rx are 0 when the archive date is strictly
\* after 2020-09-09 and strictly before 2022-01-19; on the two dates
\* themselves and outside they are the value of the sample, as an int64,
\* and its counter.
OctetsZeroInFixWindow ==
    \A i \in DOMAIN swPuts : \A m \in OctetsLocal :
        LET row == swPuts[i]
        IN  row.Seen[m] # NoSample =>
                row.A[m] = IF row.Date \in StrictlyBetween
                           THEN [Delta |-> 0, Counter |-> 0]
                           ELSE [Delta |-> Int64(row.Seen[m].Value),
                                 Counter |-> row.Seen[m].Counter]

OctetsZeroInFixWindowWitness ==
    /\ archiveDate = discoV2FixDate
    /\ swRet = "nil"
    /\ \E i \in DOMAIN swPuts :
          /\ swPuts[i].Seen["switch.octets.local.rx"] = Sample(2, 5, 8)
          /\ swPuts[i].A["switch.octets.local.rx"] = [Delta |-> 2, Counter |-> 8]

\* C39 (as claimed): ProcessAllTests ends, whatever the tar reader does.
ProcessAllTestsTerminates == <>(taskPc = "done")

\* C40 (as claimed): CheckAndDedup is never called with an absent
\* destination table, and a destination base that getTable refuses makes
\* ProcessTablesMatching return an error, not panic.
DestTableNeverAbsent ==
    /\ \A i \in DOMAIN ptLog : ptLog[i].dest # NilTable
    /\ ptRet # "panic"

\* ------------------------------------------------------------------------
\* storage.ETLSource.NextTest: delays and payloads
\* ------------------------------------------------------------------------

\* C35 (as claimed): in each retry loop of NextTest the k-th sleep lasts
\* RetryBaseTime * 2^(k-1): the first sleep is the base delay and each
\* later one twice the one before, the body loop starting again at the base.
SleepsDoubleFromBase ==
    \A k \in DOMAIN sleeps : sleeps[k] = RetryBaseTime * 2^(k - 1)

\* C38 (as claimed): a regular entry within maxSize that NextTest returns
\* with a nil error comes with its complete body.
ReturnedBodyComplete ==
    (/\ ntPc = "idle"
     /\ ntRet.name # 0
     /\ ntRet.err = "nil"
     /\ IsRegular(archive[ntRet.name].typeflag)
     /\ ~IsOversize(archive[ntRet.name].size, maxSize)) =>
        ntRet.data = Bytes(IF archive[ntRet.name].gz
                           THEN Gunzip(Body(ntRet.name))
                           ELSE Body(ntRet.name))

\* ------------------------------------------------------------------------
\* dedup.WaitForJob: the backoff
\* ------------------------------------------------------------------------

\* The Fibonacci sequence that starts with a, a.
RECURSIVE Fibonacci(_, _)
Fibonacci(a, k) == IF k <= 2 THEN a ELSE Fibonacci(a, k - 1) + Fibonacci(a, k - 2)

\* C36 (as claimed): the sleeps of WaitForJob follow the Fibonacci sequence
\* 10 ms, 10 ms, 20 ms, 30 ms, 50 ms, ... from the first sleep on.
SleepsAreFibonacci ==
    \A k \in DOMAIN slept : slept[k] = Fibonacci(InitialBackoff, k)

\* C36: the sleeps of WaitForJob are 20 ms, 30 ms, 50 ms, 80 ms, ...: the
\* Fibonacci sequence of 10 ms, 10 ms from its third element on, until a
\* sleep has reached maxBackoff, which the later sleeps repeat.
SleepsAreFibonacciFromThird ==
    \A k \in DOMAIN slept :
        \/ slept[k] = Fibonacci(InitialBackoff, k + 2)
        \/ k > 1 /\ slept[k - 1] >= MaxBackoff /\ slept[k] = slept[k - 1]

SleepsAreFibonacciFromThirdWitness ==
    /\ Len(slept) = MaxSleeps
    /\ slept[1] = 2 * InitialBackoff
    /\ slept[MaxSleeps] >= MaxBackoff
    /\ cpPc = "poll"
    /\ jobState = "running"

\* C37 (as claimed): no sleep of WaitForJob is longer than maxBackoff.
SleepWithinMaxBackoff ==
    cpPc = "sleep" => backoff <= MaxBackoff

====
